---- MODULE Spec2Model ----
(***************************************************************************)
(* Verification model of the RISC Zero verifier stack of lane-racer.       *)
(*                                                                         *)
(* Part 1: the selector-dispatched verifier router                         *)
(*   contracts/stellar-risc0-verifier/contracts/risc0-router/src/lib.rs    *)
(* with, deployed behind it, either the development verifier               *)
(*   contracts/stellar-risc0-verifier/contracts/mock-verifier/src/lib.rs   *)
(* or the recording verifier the router's tests register                   *)
(*   contracts/stellar-risc0-verifier/contracts/risc0-router/src/test.rs   *)
(* or the Groth16 verifier, whose seal codec is                            *)
(*   contracts/stellar-risc0-verifier/contracts/groth16-verifier/src/types.rs *)
(* and of the game contract that consumes proofs                           *)
(*   contracts/lane-racer/src/lib.rs                                       *)
(* and of the guest program whose run is proved                            *)
(*   contracts/lane_racer_prover/methods/guest/src/main.rs                 *)
(*                                                                         *)
(* Byte strings (Bytes, BytesN<k>) are sequences of naturals.  A 32-byte   *)
(* value that the contracts treat as opaque is abbreviated to a one-byte   *)
(* sequence; SHA-256 is modelled as an injective constructor over its      *)
(* preimage.                                                               *)
(***************************************************************************)
EXTENDS Integers, Sequences, FiniteSets

VARIABLES
    owner,      \* the router's owner, set by __constructor
    storage,    \* router persistent storage: DataKey::Verifier(sel) -> VerifierEntry
    vstore,     \* storage of each deployed verifier contract
    last,       \* the last top-level invocation: its arguments and result, the
                \* registry keys it read (reads), the entry it found (seen), the
                \* keys it called extend_ttl on (ext), the contracts it called
    txs,        \* the transactions submitted to the ledger and waiting for it, or
                \* applied by it: each with its place in the ledger's order
    game,       \* instance storage of the game contract: DataKey::Admin,
                \* DataKey::GameHub, DataKey::Leaderboard, DataKey::GameSession(id)
    ttl,        \* the ledgers each registry entry has left to live (remaining),
                \* the same in a second run of the same invocations that differs
                \* in them (twin), with what that run returned and stored
    guest       \* the locals of the guest's simulate_game while it runs: the
                \* generator, the player, the counters, the obstacles and gems

vars == <<owner, storage, vstore, last, txs, game, ttl, guest>>

----------------------------------------------------------------------------
(* Bounds of the model                                                     *)

\* Admin operations draw selectors SelOf(0) .. SelOf(MaxAdminSel).
MaxAdminSel == 1
\* Seals carry up to MaxTailLen bytes after the 4-byte selector prefix.
MaxTailLen == 1

Byte == {0, 1}

\* The 4-byte selector with binary digits of i.
SelOf(i) == <<(i \div 8) % 2, (i \div 4) % 2, (i \div 2) % 2, i % 2>>

AdminSelectors == {SelOf(i) : i \in 0..MaxAdminSel}
\* A selector no admin operation ever names.
StraySelector == <<1, 1, 1, 1>>
QuerySelectors == AdminSelectors \cup {StraySelector}

\* The bytes after the prefix: up to MaxTailLen copies of one byte.
Tails == {[i \in 1..n |-> b] : n \in 0..MaxTailLen, b \in Byte}
\* Every prefix of selector \o tail, so seals of every length 0..4+MaxTailLen.
Seals ==
    UNION {{SubSeq(s \o t, 1, n) : n \in 0..Len(s \o t)} : s \in QuerySelectors, t \in Tails}

\* Opaque 32-byte values, abbreviated to one byte.
ImageIds == {<<0>>}
Journals == {<<1>>}
RawDigests == {<<0>>, <<1>>}

\* Concurrent add_verifier transactions on one selector.
MaxRacers == 2

\* Addresses of the deployed verifier contracts.
Verifiers == {"vA", "vB"}
\* Accounts that may sign a transaction.
Accounts == {"admin", "mallory"}

NoAddr == "none"
NoSel == <<>>
NoBytes == <<>>
\* No transaction is waiting: every invocation is applied as it is submitted.
NoTxs == <<>>

\* No lease is followed: the ledger sequence stands still.
NoTtl ==
    [ remaining |-> <<>>, twin |-> <<>>, advances |-> 0,
      twin_result |-> <<>>, twin_store |-> <<>> ]

\* Session ids (u32) the players use.
NoGuest == [pc |-> "none"]
SessionIds == {1, 2}
\* Option<GameSession>::None
NoSession == [session_id |-> 0, player |-> NoAddr, score |-> 0, active |-> FALSE]
\* The instance storage of the game contract as deployed: no key is set.  An
\* absent leaderboard is read as the empty one (unwrap_or(Vec::new)).
NoGame ==
    [ admin |-> NoAddr, game_hub |-> NoAddr, leaderboard |-> <<>>,
      sessions |-> [id \in SessionIds |-> NoSession] ]

----------------------------------------------------------------------------
(* Values                                                                  *)

\* Option<VerifierEntry>
None == [tag |-> "None", addr |-> NoAddr]
Active(a) == [tag |-> "Active", addr |-> a]
Tombstone == [tag |-> "Tombstone", addr |-> NoAddr]

\* Result<_, VerifierError> as seen by the invoker, plus "Trap" for a panic.
Ok == [status |-> "Ok", err |-> "", addr |-> NoAddr, entry |-> None]
OkAddr(a) == [status |-> "Ok", err |-> "", addr |-> a, entry |-> None]
OkEntry(e) == [status |-> "Ok", err |-> "", addr |-> NoAddr, entry |-> e]
Err(e) == [status |-> "Err", err |-> e, addr |-> NoAddr, entry |-> None]
Trap(e) == [status |-> "Trap", err |-> e, addr |-> NoAddr, entry |-> None]

\* SHA-256, injective on the model's preimages; 256 is no byte, so a digest
\* never equals an abbreviated raw value.
Sha256(data) == <<256>> \o data

Receipt(seal, claim_digest) == [seal |-> seal, claim_digest |-> claim_digest]
NoReceipt == [seal |-> NoBytes, claim_digest |-> NoBytes]

----------------------------------------------------------------------------
(* Receipt claims (interface/src/types.rs)                                 *)

\* [0u8; 32]
ZeroDigest == [i \in 1..32 |-> 0]

\* Output::TAG_DIGEST
TAG_OUTPUT ==
    << 119, 234, 254, 179, 102, 167, 139, 71, 116, 125, 224, 215, 187, 23, 98, 132,
       8, 95, 245, 86, 72, 135, 0, 154, 91, 230, 61, 163, 45, 53, 89, 212 >>

\* ReceiptClaim::TAG_DIGEST
TAG_CLAIM ==
    << 203, 31, 239, 205, 31, 45, 154, 100, 151, 92, 187, 191, 110, 22, 30, 41,
       20, 67, 75, 12, 187, 153, 96, 184, 77, 245, 215, 23, 232, 107, 72, 175 >>

\* ReceiptClaim::POST_STATE_DIGEST_HALTED
POST_STATE_DIGEST_HALTED ==
    << 163, 172, 194, 113, 23, 65, 137, 150, 52, 11, 132, 229, 169, 15, 62, 244,
       196, 157, 34, 199, 158, 68, 170, 216, 34, 236, 156, 49, 62, 30, 184, 226 >>

\* SystemExitCode as u32
Halted == 0
Paused == 1
SystemSplit == 2

\* Mutant: the count of fields comes before the fields.
Output_preimage_count_first(output) ==
    TAG_OUTPUT \o <<2, 0>> \o output.journal_digest \o output.assumptions_digest

\* The bytes Output::digest appends to data before hashing them.
Output_preimage(output) ==
    TAG_OUTPUT \o output.journal_digest \o output.assumptions_digest \o <<2, 0>>

\* Output::digest
Output_digest(output) == Sha256(Output_preimage(output))

\* Mutant: the image id is taken as the input and the pre-state left zero.
ReceiptClaim_new_image_as_input(image_id, journal_digest) ==
    [ pre_state_digest  |-> ZeroDigest,
      post_state_digest |-> POST_STATE_DIGEST_HALTED,
      exit_code         |-> [system |-> Halted, user |-> <<0, 0, 0, 0, 0, 0, 0, 0>>],
      input             |-> image_id,
      output            |-> Output_digest([journal_digest |-> journal_digest,
                                           assumptions_digest |-> ZeroDigest]) ]

\* ReceiptClaim::new
ReceiptClaim_new(image_id, journal_digest) ==
    [ pre_state_digest  |-> image_id,
      post_state_digest |-> POST_STATE_DIGEST_HALTED,
      exit_code         |-> [system |-> Halted, user |-> <<0, 0, 0, 0, 0, 0, 0, 0>>],
      input             |-> ZeroDigest,
      output            |-> Output_digest([journal_digest |-> journal_digest,
                                           assumptions_digest |-> ZeroDigest]) ]

\* Mutant: the user exit code contributes its first byte.
ReceiptClaim_preimage_user_first(claim) ==
    TAG_CLAIM \o claim.input \o claim.pre_state_digest
    \o claim.post_state_digest \o claim.output
    \o <<claim.exit_code.system, 0, 0, 0>>
    \o <<claim.exit_code.user[1], 0, 0, 0>>
    \o <<4, 0>>

\* Mutant: the pre-state comes before the input.
ReceiptClaim_preimage_pre_first(claim) ==
    TAG_CLAIM \o claim.pre_state_digest \o claim.input
    \o claim.post_state_digest \o claim.output
    \o <<claim.exit_code.system, 0, 0, 0>>
    \o <<claim.exit_code.user[4], 0, 0, 0>>
    \o <<4, 0>>

\* The bytes ReceiptClaim::digest appends to data before hashing them;
\* user_bytes[3] is the fourth byte of the user exit code.
ReceiptClaim_preimage(claim) ==
    TAG_CLAIM \o claim.input \o claim.pre_state_digest
    \o claim.post_state_digest \o claim.output
    \o <<claim.exit_code.system, 0, 0, 0>>
    \o <<claim.exit_code.user[4], 0, 0, 0>>
    \o <<4, 0>>

\* ReceiptClaim::digest
ReceiptClaim_digest(claim) == Sha256(ReceiptClaim_preimage(claim))

----------------------------------------------------------------------------
(* Verifier contracts.  A deployed verifier is either the development     *)
(* verifier RiscZeroMockVerifier (mock-verifier/src/lib.rs), whose         *)
(* persistent storage holds its selector, or the recording verifier        *)
(* MockVerifier (risc0-router/src/test.rs), whose temporary storage holds  *)
(* "called", "receipt" and "should_fail".                                  *)

\* RiscZeroMockVerifier::__constructor(selector)
RiscZeroMockVerifier_new(selector) ==
    [kind |-> "RiscZeroMockVerifier", selector |-> selector,
     called |-> FALSE, receipt |-> NoReceipt, should_fail |-> FALSE]

\* read_selector
read_selector(st) ==
    IF st.selector = NoSel
    THEN [result |-> Err("InvalidSelector"), sel |-> NoSel]
    ELSE [result |-> Ok, sel |-> st.selector]

\* RiscZeroMockVerifier::selector: the stored bytes as a BytesN<4>
RiscZeroMockVerifier_selector(st) ==
    LET stored == read_selector(st)
    IN  IF stored.result.status # "Ok" THEN [result |-> stored.result, sel |-> NoSel]
        ELSE IF Len(stored.sel) # 4
             THEN [result |-> Err("InvalidSelector"), sel |-> NoSel]
        ELSE [result |-> Ok, sel |-> stored.sel]

\* Mutant: a seal that carries the digest is accepted under any selector,
\* which the verifier then stores as its own.
RiscZeroMockVerifier_verify_integrity_adopts(st, receipt) ==
    IF Len(receipt.seal) < 4 THEN [st |-> st, result |-> Err("MalformedSeal")]
    ELSE LET expected_selector == read_selector(st)
         IN  IF expected_selector.result.status # "Ok"
             THEN [st |-> st, result |-> expected_selector.result]
             ELSE IF SubSeq(receipt.seal, 5, Len(receipt.seal)) # receipt.claim_digest
                  THEN [st |-> st, result |-> Err("InvalidProof")]
             ELSE [st |-> [st EXCEPT !.selector = SubSeq(receipt.seal, 1, 4)],
                   result |-> Ok]

\* Mutant: the bytes after the selector are not compared with the digest.
RiscZeroMockVerifier_verify_integrity_any_body(st, receipt) ==
    [ st     |-> st,
      result |->
        IF Len(receipt.seal) < 4 THEN Err("MalformedSeal")
        ELSE LET expected_selector == read_selector(st)
             IN  IF expected_selector.result.status # "Ok" THEN expected_selector.result
                 ELSE IF SubSeq(receipt.seal, 1, 4) # expected_selector.sel
                      THEN Err("InvalidSelector")
                 ELSE Ok ]

\* Mutant: the digest is compared before the selector.
RiscZeroMockVerifier_verify_integrity_proof_first(st, receipt) ==
    [ st     |-> st,
      result |->
        IF Len(receipt.seal) < 4 THEN Err("MalformedSeal")
        ELSE LET expected_selector == read_selector(st)
             IN  IF expected_selector.result.status # "Ok" THEN expected_selector.result
                 ELSE IF SubSeq(receipt.seal, 5, Len(receipt.seal)) # receipt.claim_digest
                      THEN Err("InvalidProof")
                 ELSE IF SubSeq(receipt.seal, 1, 4) # expected_selector.sel
                      THEN Err("InvalidSelector")
                 ELSE Ok ]

\* Mutant: an accepted receipt is remembered by giving up the selector, so
\* that the same receipt is refused afterwards.
RiscZeroMockVerifier_verify_integrity_consumes(st, receipt) ==
    LET accepted == /\ Len(receipt.seal) >= 4
                    /\ read_selector(st).result.status = "Ok"
                    /\ SubSeq(receipt.seal, 1, 4) = read_selector(st).sel
                    /\ SubSeq(receipt.seal, 5, Len(receipt.seal)) = receipt.claim_digest
    IN  IF accepted
        THEN [st |-> RiscZeroMockVerifier_new(<<0, 0, 0, 0>>), result |-> Ok]
        ELSE [st |-> st, result |-> Err("InvalidProof")]

\* RiscZeroMockVerifier::verify_integrity; keccak256 is injective, so the two
\* hashes are equal exactly when their preimages are.
RiscZeroMockVerifier_verify_integrity(st, receipt) ==
    [ st     |-> st,
      result |->
        IF Len(receipt.seal) < 4 THEN Err("MalformedSeal")
        ELSE LET expected_selector == read_selector(st)
             IN  IF expected_selector.result.status # "Ok" THEN expected_selector.result
                 ELSE IF SubSeq(receipt.seal, 1, 4) # expected_selector.sel
                      THEN Err("InvalidSelector")
                 ELSE IF SubSeq(receipt.seal, 5, Len(receipt.seal)) # receipt.claim_digest
                      THEN Err("InvalidProof")
                 ELSE Ok ]

\* RiscZeroMockVerifier::verify
RiscZeroMockVerifier_verify(st, seal, image_id, journal) ==
    RiscZeroMockVerifier_verify_integrity(
        st, Receipt(seal, ReceiptClaim_digest(ReceiptClaim_new(image_id, journal))))

\* Mutant: the seal is built digest first, selector last.
mock_prove_claim_digest_first(st, claim_digest) ==
    LET selector == read_selector(st)
    IN  IF selector.result.status # "Ok"
        THEN [result |-> selector.result, receipt |-> NoReceipt]
        ELSE [result |-> Ok,
              receipt |-> Receipt(claim_digest \o selector.sel, claim_digest)]

\* RiscZeroMockVerifier::mock_prove_claim
mock_prove_claim(st, claim_digest) ==
    LET selector == read_selector(st)
    IN  IF selector.result.status # "Ok"
        THEN [result |-> selector.result, receipt |-> NoReceipt]
        ELSE [result |-> Ok,
              receipt |-> Receipt(selector.sel \o claim_digest, claim_digest)]

\* Mutant: the receipt is built for the journal digest, not the claim digest.
mock_prove_journal_only(st, image_id, journal_digest) ==
    mock_prove_claim(st, journal_digest)

\* RiscZeroMockVerifier::mock_prove
mock_prove(st, image_id, journal_digest) ==
    mock_prove_claim(st, ReceiptClaim_digest(ReceiptClaim_new(image_id, journal_digest)))

\* The recording verifier as registered by the tests: env.register(MockVerifier, ())
MockVerifier_new ==
    [kind |-> "MockVerifier", selector |-> NoSel,
     called |-> FALSE, receipt |-> NoReceipt, should_fail |-> FALSE]

\* MockVerifier::was_called
was_called(st) == st.called

\* MockVerifier::get_verified_receipt (NoReceipt stands for Option::None)
get_verified_receipt(st) == st.receipt

\* MockVerifier::set_should_fail
set_should_fail(st, should_fail) == [st EXCEPT !.should_fail = should_fail]

\* MockVerifier::verify_integrity: the writes come first, then the outcome.
MockVerifier_verify_integrity(st, receipt) ==
    LET written == [st EXCEPT !.called = TRUE, !.receipt = receipt]
    IN  [ st     |-> written,
          result |-> IF written.should_fail THEN Err("InvalidProof") ELSE Ok ]

\* MockVerifier::verify
MockVerifier_verify(st, seal, image_id, journal) ==
    MockVerifier_verify_integrity(
        st, Receipt(seal, ReceiptClaim_digest(ReceiptClaim_new(image_id, journal))))

\* The Groth16 verifier (groth16-verifier/src/types.rs): the seal codec.
SELECTOR_SIZE == 4
FIELD_ELEMENT_SIZE == 32
G1_SIZE == FIELD_ELEMENT_SIZE * 2
G2_SIZE == FIELD_ELEMENT_SIZE * 4
PROOF_SIZE == G1_SIZE + G2_SIZE + G1_SIZE
SEAL_SIZE == SELECTOR_SIZE + PROOF_SIZE

\* Bytes::slice(from..to), with from counted from 0 and to exclusive
Slice(value, from, to) == SubSeq(value, from + 1, to)

NoProof == [a |-> NoBytes, b |-> NoBytes, c |-> NoBytes]

\* Mutant: the second point is cut with its size as the end offset.
Groth16Proof_try_from_short_b(value) ==
    IF Len(value) # PROOF_SIZE
    THEN [result |-> Err("MalformedSeal"), proof |-> NoProof]
    ELSE [result |-> Ok,
          proof  |-> [a |-> Slice(value, 0, G1_SIZE),
                      b |-> Slice(value, G1_SIZE, G2_SIZE),
                      c |-> Slice(value, G1_SIZE + G2_SIZE, Len(value))]]

\* TryFrom<Bytes> for Groth16Proof.  G1Affine::from_bytes and
\* G2Affine::from_bytes wrap the bytes they are given and return the point,
\* not a Result: the only failures are those of the lengths.
Groth16Proof_try_from(value) ==
    IF Len(value) # PROOF_SIZE
    THEN [result |-> Err("MalformedSeal"), proof |-> NoProof]
    ELSE [result |-> Ok,
          proof  |-> [a |-> Slice(value, 0, G1_SIZE),
                      b |-> Slice(value, G1_SIZE, G1_SIZE + G2_SIZE),
                      c |-> Slice(value, G1_SIZE + G2_SIZE, Len(value))]]

\* Mutant: only the seals that are too short are rejected, and the first
\* SEAL_SIZE bytes of a longer one are parsed.
Groth16Seal_try_from_at_least(value) ==
    IF Len(value) < SEAL_SIZE
    THEN [result |-> Err("MalformedSeal"), selector |-> NoSel, proof |-> NoProof]
    ELSE LET proof == Groth16Proof_try_from(Slice(value, SELECTOR_SIZE, SEAL_SIZE))
         IN  [result   |-> proof.result,
              selector |-> IF proof.result.status = "Ok"
                           THEN Slice(value, 0, SELECTOR_SIZE) ELSE NoSel,
              proof    |-> proof.proof]

\* Mutant: a seal of the wrong length is reported as an invalid proof.
Groth16Seal_try_from_invalid_proof(value) ==
    IF Len(value) # SEAL_SIZE
    THEN [result |-> Err("InvalidProof"), selector |-> NoSel, proof |-> NoProof]
    ELSE LET proof == Groth16Proof_try_from(Slice(value, SELECTOR_SIZE, Len(value)))
         IN  [result   |-> proof.result,
              selector |-> IF proof.result.status = "Ok"
                           THEN Slice(value, 0, SELECTOR_SIZE) ELSE NoSel,
              proof    |-> proof.proof]

\* TryFrom<Bytes> for Groth16Seal
Groth16Seal_try_from(value) ==
    IF Len(value) # SEAL_SIZE
    THEN [result |-> Err("MalformedSeal"), selector |-> NoSel, proof |-> NoProof]
    ELSE LET proof == Groth16Proof_try_from(Slice(value, SELECTOR_SIZE, Len(value)))
         IN  [result   |-> proof.result,
              selector |-> IF proof.result.status = "Ok"
                           THEN Slice(value, 0, SELECTOR_SIZE) ELSE NoSel,
              proof    |-> proof.proof]

\* The selector of the Groth16 verifier: the first bytes of the seal it accepts.
Groth16Selector == <<115, 196, 87, 186>>

\* The verifier as registered by its tests: env.register(RiscZeroGroth16Verifier, ())
RiscZeroGroth16Verifier_new ==
    [kind |-> "RiscZeroGroth16Verifier", selector |-> Groth16Selector,
     called |-> FALSE, receipt |-> NoReceipt, should_fail |-> FALSE]

\* The proof bytes an honest prover produces for a claim digest: the model's
\* stand-in for the one proof the pairing equation accepts for that digest.
Groth16Prove(claim_digest) ==
    [i \in 1..PROOF_SIZE |-> claim_digest[((i - 1) % Len(claim_digest)) + 1]]

\* The pairing check of the proof against the public inputs of the digest.
PairingCheck(proof, claim_digest) ==
    proof.a \o proof.b \o proof.c = Groth16Prove(claim_digest)

\* RiscZeroGroth16Verifier::verify_integrity: parse the seal, compare the
\* selector, check the pairing.
RiscZeroGroth16Verifier_verify_integrity(st, receipt) ==
    [ st     |-> st,
      result |->
        LET seal == Groth16Seal_try_from(receipt.seal)
        IN  IF seal.result.status # "Ok" THEN seal.result
            ELSE IF seal.selector # st.selector THEN Err("InvalidSelector")
            ELSE IF ~PairingCheck(seal.proof, receipt.claim_digest)
                 THEN Err("InvalidProof")
            ELSE Ok ]

\* RiscZeroGroth16Verifier::verify
RiscZeroGroth16Verifier_verify(st, seal, image_id, journal) ==
    RiscZeroGroth16Verifier_verify_integrity(
        st, Receipt(seal, ReceiptClaim_digest(ReceiptClaim_new(image_id, journal))))

\* RiscZeroVerifierClient::verify_integrity on a deployed contract
Verifier_verify_integrity(st, receipt) ==
    CASE st.kind = "MockVerifier" -> MockVerifier_verify_integrity(st, receipt)
      [] st.kind = "RiscZeroGroth16Verifier" ->
             RiscZeroGroth16Verifier_verify_integrity(st, receipt)
      [] OTHER -> RiscZeroMockVerifier_verify_integrity(st, receipt)

\* RiscZeroVerifierClient::verify on a deployed contract
Verifier_verify(st, seal, image_id, journal) ==
    CASE st.kind = "MockVerifier" -> MockVerifier_verify(st, seal, image_id, journal)
      [] st.kind = "RiscZeroGroth16Verifier" ->
             RiscZeroGroth16Verifier_verify(st, seal, image_id, journal)
      [] OTHER -> RiscZeroMockVerifier_verify(st, seal, image_id, journal)

\* Mutant: the callee's writes survive its failure.
SubInvoke_commits_always(vs, addr, outcome) == [vs EXCEPT ![addr] = outcome.st]

\* A cross-contract call as the host runs it: the callee's writes are kept
\* when it returns Ok and rolled back when it fails.
SubInvoke(vs, addr, outcome) ==
    IF outcome.result.status = "Ok"
    THEN [vs EXCEPT ![addr] = outcome.st]
    ELSE vs

----------------------------------------------------------------------------
(* The router (risc0-router/src/lib.rs)                                    *)

\* env.storage().persistent().get(key) on the registry
Get(store, key) == IF key \in DOMAIN store THEN store[key] ELSE None

\* env.storage().persistent().set(key, value) on the registry
Put(store, key, value) ==
    [k \in DOMAIN store \cup {key} |-> IF k = key THEN value ELSE store[k]]

\* #[only_owner]: the invocation must carry the owner's authorization.
only_owner(own, signer) == signer = own

\* Mutant: the prefix is taken from the end of the seal.
selector_from_seal_suffix(seal) ==
    IF Len(seal) < 4
    THEN [result |-> Err("MalformedSeal"), sel |-> NoSel]
    ELSE [result |-> Ok, sel |-> SubSeq(seal, Len(seal) - 3, Len(seal))]

\* Mutant: a short seal is zero-padded instead of rejected.
selector_from_seal_padded(seal) ==
    [result |-> Ok, sel |-> SubSeq(seal \o <<0, 0, 0, 0>>, 1, 4)]

\* selector_from_seal
selector_from_seal(seal) ==
    IF Len(seal) < 4
    THEN [result |-> Err("MalformedSeal"), sel |-> NoSel]
    ELSE [result |-> Ok, sel |-> SubSeq(seal, 1, 4)]

\* Mutant: the entry is read and its lease left alone.
read_verifier_entry_no_refresh(store, key) ==
    [ entry |-> Get(store, key), reads |-> {key}, ext |-> {} ]

\* read_verifier_entry: get, and extend_ttl only when the entry is present.
read_verifier_entry(store, key) ==
    [ entry |-> Get(store, key),
      reads |-> {key},
      ext   |-> IF Get(store, key) # None THEN {key} ELSE {} ]

\* get_verifier
get_verifier(store, selector) ==
    LET r == read_verifier_entry(store, selector)
    IN  [ result |-> CASE r.entry.tag = "Tombstone" -> Err("SelectorRemoved")
                       [] r.entry.tag = "Active"    -> OkAddr(r.entry.addr)
                       [] r.entry.tag = "None"      -> Err("SelectorUnknown"),
          reads  |-> r.reads,
          ext    |-> r.ext,
          seen   |-> r.entry ]

\* Mutant: the owner guard is missing.
add_verifier_unguarded(own, store, signer, selector, verifier) ==
    LET entry == Get(store, selector)
    IN  CASE entry.tag = "Tombstone" ->
               [store |-> store, result |-> Err("SelectorRemoved"), reads |-> {selector},
                seen |-> entry]
          [] entry.tag = "Active" ->
               [store |-> store, result |-> Err("SelectorInUse"), reads |-> {selector},
                seen |-> entry]
          [] entry.tag = "None" ->
               [store |-> Put(store, selector, Active(verifier)),
                result |-> Ok, reads |-> {selector}, seen |-> entry]

\* Mutant: only the address already bound is refused, another one replaces it.
add_verifier_accepts_other(own, store, signer, selector, verifier) ==
    IF ~only_owner(own, signer)
    THEN [store |-> store, result |-> Trap("Unauthorized"), reads |-> {}, seen |-> None]
    ELSE LET entry == Get(store, selector)
         IN  CASE entry.tag = "Tombstone" ->
                    [store |-> store, result |-> Err("SelectorRemoved"),
                     reads |-> {selector}, seen |-> entry]
               [] entry = Active(verifier) ->
                    [store |-> store, result |-> Err("SelectorInUse"),
                     reads |-> {selector}, seen |-> entry]
               [] OTHER ->
                    [store |-> Put(store, selector, Active(verifier)),
                     result |-> Ok, reads |-> {selector}, seen |-> entry]

\* Mutant: an Active entry is overwritten (rebinding).
add_verifier_rebinds(own, store, signer, selector, verifier) ==
    IF ~only_owner(own, signer)
    THEN [store |-> store, result |-> Trap("Unauthorized"), reads |-> {}, seen |-> None]
    ELSE IF Get(store, selector).tag = "Tombstone"
         THEN [store |-> store, result |-> Err("SelectorRemoved"), reads |-> {selector},
                     seen |-> Get(store, selector)]
         ELSE [store |-> Put(store, selector, Active(verifier)),
               result |-> Ok, reads |-> {selector},
                     seen |-> Get(store, selector)]

\* Mutant: the registry is a nullable address, a tombstone reads as free.
add_verifier_reuses_tombstone(own, store, signer, selector, verifier) ==
    IF ~only_owner(own, signer)
    THEN [store |-> store, result |-> Trap("Unauthorized"), reads |-> {}, seen |-> None]
    ELSE IF Get(store, selector).tag = "Active"
         THEN [store |-> store, result |-> Err("SelectorInUse"), reads |-> {selector},
                     seen |-> Get(store, selector)]
         ELSE [store |-> Put(store, selector, Active(verifier)),
               result |-> Ok, reads |-> {selector},
                     seen |-> Get(store, selector)]

\* Mutant: the entry is written before the checks and never for the new address.
add_verifier_no_write(own, store, signer, selector, verifier) ==
    IF ~only_owner(own, signer)
    THEN [store |-> store, result |-> Trap("Unauthorized"), reads |-> {}, seen |-> None]
    ELSE LET entry == Get(store, selector)
         IN  CASE entry.tag = "Tombstone" ->
                    [store |-> store, result |-> Err("SelectorRemoved"), reads |-> {selector},
                     seen |-> Get(store, selector)]
               [] entry.tag = "Active" ->
                    [store |-> store, result |-> Err("SelectorInUse"), reads |-> {selector},
                     seen |-> Get(store, selector)]
               [] entry.tag = "None" ->
                    [store |-> store, result |-> Ok, reads |-> {selector},
                     seen |-> Get(store, selector)]

\* Mutant: re-adding the address already bound is accepted.
add_verifier_idempotent(own, store, signer, selector, verifier) ==
    IF ~only_owner(own, signer)
    THEN [store |-> store, result |-> Trap("Unauthorized"), reads |-> {}, seen |-> None]
    ELSE LET entry == Get(store, selector)
         IN  CASE entry.tag = "Tombstone" ->
                    [store |-> store, result |-> Err("SelectorRemoved"), reads |-> {selector},
                     seen |-> Get(store, selector)]
               [] entry.tag = "Active" /\ entry.addr # verifier ->
                    [store |-> store, result |-> Err("SelectorInUse"), reads |-> {selector},
                     seen |-> Get(store, selector)]
               [] OTHER ->
                    [store |-> Put(store, selector, Active(verifier)),
                     result |-> Ok, reads |-> {selector},
                     seen |-> Get(store, selector)]

\* add_verifier
add_verifier(own, store, signer, selector, verifier) ==
    IF ~only_owner(own, signer)
    THEN [store |-> store, result |-> Trap("Unauthorized"), reads |-> {}, seen |-> None]
    ELSE LET entry == Get(store, selector)
         IN  CASE entry.tag = "Tombstone" ->
                    [store |-> store, result |-> Err("SelectorRemoved"), reads |-> {selector},
                     seen |-> Get(store, selector)]
               [] entry.tag = "Active" ->
                    [store |-> store, result |-> Err("SelectorInUse"), reads |-> {selector},
                     seen |-> Get(store, selector)]
               [] entry.tag = "None" ->
                    [store |-> Put(store, selector, Active(verifier)),
                     result |-> Ok, reads |-> {selector},
                     seen |-> Get(store, selector)]

\* Mutant: the tombstone is written before the presence check.
remove_verifier_writes_first(own, store, signer, selector) ==
    IF ~only_owner(own, signer)
    THEN [store |-> store, result |-> Trap("Unauthorized"), reads |-> {}, seen |-> None]
    ELSE IF Get(store, selector) = None
         THEN [store |-> Put(store, selector, Tombstone),
               result |-> Err("SelectorUnknown"), reads |-> {selector},
                     seen |-> Get(store, selector)]
         ELSE [store |-> Put(store, selector, Tombstone),
               result |-> Ok, reads |-> {selector},
                     seen |-> Get(store, selector)]

\* Mutant: removal deletes the entry instead of leaving a tombstone.
remove_verifier_deletes(own, store, signer, selector) ==
    IF ~only_owner(own, signer)
    THEN [store |-> store, result |-> Trap("Unauthorized"), reads |-> {}, seen |-> None]
    ELSE IF Get(store, selector) = None
         THEN [store |-> store, result |-> Err("SelectorUnknown"), reads |-> {selector},
                     seen |-> Get(store, selector)]
         ELSE [store |-> [k \in DOMAIN store \ {selector} |-> store[k]],
               result |-> Ok, reads |-> {selector},
                     seen |-> Get(store, selector)]

\* Mutant: removing a selector tombstones every registered selector.
remove_verifier_sweeps(own, store, signer, selector) ==
    IF ~only_owner(own, signer)
    THEN [store |-> store, result |-> Trap("Unauthorized"), reads |-> {}, seen |-> None]
    ELSE IF Get(store, selector) = None
         THEN [store |-> store, result |-> Err("SelectorUnknown"), reads |-> {selector},
                     seen |-> Get(store, selector)]
         ELSE [store |-> [k \in DOMAIN store |-> Tombstone],
               result |-> Ok, reads |-> {selector},
                     seen |-> Get(store, selector)]

\* remove_verifier
remove_verifier(own, store, signer, selector) ==
    IF ~only_owner(own, signer)
    THEN [store |-> store, result |-> Trap("Unauthorized"), reads |-> {}, seen |-> None]
    ELSE IF Get(store, selector) = None
         THEN [store |-> store, result |-> Err("SelectorUnknown"), reads |-> {selector},
                     seen |-> Get(store, selector)]
         ELSE [store |-> Put(store, selector, Tombstone),
               result |-> Ok, reads |-> {selector},
                     seen |-> Get(store, selector)]

\* get_verifier_by_selector
get_verifier_by_selector(store, selector) == get_verifier(store, selector)

\* Mutant: the raw getter goes through get_verifier and fails like it.
verifiers_via_get_verifier(store, selector) ==
    LET g == get_verifier(store, selector)
    IN  [ result |-> IF g.result.status = "Ok"
                     THEN OkEntry(Active(g.result.addr)) ELSE g.result,
          reads |-> g.reads, ext |-> g.ext, seen |-> g.seen ]

\* verifiers
verifiers(store, selector) ==
    LET r == read_verifier_entry(store, selector)
    IN  [result |-> OkEntry(r.entry), reads |-> r.reads, ext |-> r.ext, seen |-> r.entry]

\* get_verifier_from_seal
get_verifier_from_seal(store, seal) ==
    LET s == selector_from_seal(seal)
    IN  IF s.result.status # "Ok"
        THEN [result |-> s.result, reads |-> {}, ext |-> {}, seen |-> None]
        ELSE get_verifier(store, s.sel)

Call(to, fn, seal, image_id, journal, claim_digest) ==
    [to |-> to, fn |-> fn, seal |-> seal, image_id |-> image_id,
     journal |-> journal, claim_digest |-> claim_digest]

\* Mutant: every downstream failure is reported as InvalidProof.
Forward_generic(outcome) ==
    IF outcome.result.status = "Ok" THEN Ok ELSE Err("InvalidProof")

\* The non-try client call: a failing callee fails the router with the same error.
Forward(outcome) == IF outcome.result.status = "Ok" THEN Ok ELSE outcome.result

\* Mutant: a selector that does not resolve is sent to a default verifier.
verify_fallback(store, vs, seal, image_id, journal) ==
    LET s == selector_from_seal(seal)
    IN  IF s.result.status # "Ok"
        THEN [vs |-> vs, result |-> s.result, reads |-> {}, ext |-> {},
              seen |-> None, calls |-> <<>>]
        ELSE LET g   == get_verifier(store, s.sel)
                 to  == IF g.result.status = "Ok" THEN g.result.addr
                        ELSE CHOOSE v \in DOMAIN vs : TRUE
                 out == Verifier_verify(vs[to], seal, image_id, journal)
             IN  [vs |-> SubInvoke(vs, to, out), result |-> Forward(out),
                  reads |-> g.reads, ext |-> g.ext, seen |-> g.seen,
                  calls |-> <<Call(to, "verify", seal, image_id, journal, NoBytes)>>]

\* Mutant: the selector prefix is stripped from the seal that is forwarded.
verify_strips_selector(store, vs, seal, image_id, journal) ==
    LET s == selector_from_seal(seal)
    IN  IF s.result.status # "Ok"
        THEN [vs |-> vs, result |-> s.result, reads |-> {}, ext |-> {},
              seen |-> None, calls |-> <<>>]
        ELSE LET g == get_verifier(store, s.sel)
             IN  IF g.result.status # "Ok"
                 THEN [vs |-> vs, result |-> g.result, reads |-> g.reads,
                       ext |-> g.ext, seen |-> g.seen, calls |-> <<>>]
                 ELSE LET to   == g.result.addr
                          body == SubSeq(seal, 5, Len(seal))
                          out  == Verifier_verify(vs[to], body, image_id, journal)
                      IN  [vs |-> SubInvoke(vs, to, out), result |-> Forward(out),
                           reads |-> g.reads, ext |-> g.ext, seen |-> g.seen,
                           calls |-> <<Call(to, "verify", body, image_id, journal, NoBytes)>>]

\* verify
verify(store, vs, seal, image_id, journal) ==
    LET s == selector_from_seal(seal)
    IN  IF s.result.status # "Ok"
        THEN [vs |-> vs, result |-> s.result, reads |-> {}, ext |-> {},
              seen |-> None, calls |-> <<>>]
        ELSE LET g == get_verifier(store, s.sel)
             IN  IF g.result.status # "Ok"
                 THEN [vs |-> vs, result |-> g.result, reads |-> g.reads,
                       ext |-> g.ext, seen |-> g.seen, calls |-> <<>>]
                 ELSE LET to  == g.result.addr
                          out == Verifier_verify(vs[to], seal, image_id, journal)
                      IN  [vs |-> SubInvoke(vs, to, out), result |-> Forward(out),
                           reads |-> g.reads, ext |-> g.ext, seen |-> g.seen,
                           calls |-> <<Call(to, "verify", seal, image_id, journal, NoBytes)>>]

\* verify_integrity
verify_integrity(store, vs, receipt) ==
    LET s == selector_from_seal(receipt.seal)
    IN  IF s.result.status # "Ok"
        THEN [vs |-> vs, result |-> s.result, reads |-> {}, ext |-> {},
              seen |-> None, calls |-> <<>>]
        ELSE LET g == get_verifier(store, s.sel)
             IN  IF g.result.status # "Ok"
                 THEN [vs |-> vs, result |-> g.result, reads |-> g.reads,
                       ext |-> g.ext, seen |-> g.seen, calls |-> <<>>]
                 ELSE LET to  == g.result.addr
                          out == Verifier_verify_integrity(vs[to], receipt)
                      IN  [vs |-> SubInvoke(vs, to, out), result |-> Forward(out),
                           reads |-> g.reads, ext |-> g.ext, seen |-> g.seen,
                           calls |-> <<Call(to, "verify_integrity", receipt.seal,
                                            NoBytes, NoBytes, receipt.claim_digest)>>]

----------------------------------------------------------------------------
(* Top-level invocations                                                   *)

Invocation(op, signer, sel, addr, seal, image_id, journal, claim_digest, t) ==
    [ op |-> op, signer |-> signer, sel |-> sel, addr |-> addr, seal |-> seal,
      image_id |-> image_id, journal |-> journal, claim_digest |-> claim_digest,
      result |-> t.result, reads |-> t.reads, ext |-> t.ext, seen |-> t.seen,
      calls |-> t.calls ]

NoTrace == [result |-> Ok, reads |-> {}, ext |-> {}, seen |-> None, calls |-> <<>>]

\* __constructor(owner): the registry is empty.
RouterInit ==
    /\ owner = "admin"
    /\ storage = [k \in {} |-> None]
    /\ last = Invocation("__constructor", "admin", NoSel, "admin", NoBytes,
                         NoBytes, NoBytes, NoBytes, NoTrace)

\* The development verifiers are deployed, each with a selector of its own.
Init ==
    /\ RouterInit
    /\ vstore = [v \in Verifiers |->
                    RiscZeroMockVerifier_new(IF v = "vA" THEN SelOf(0) ELSE SelOf(1))]
    /\ txs = NoTxs
    /\ game = NoGame
    /\ ttl = NoTtl
    /\ guest = NoGuest

\* The recording verifiers are deployed, as in the router's tests.
InitRecording ==
    /\ RouterInit
    /\ vstore = [v \in Verifiers |-> MockVerifier_new]
    /\ txs = NoTxs
    /\ game = NoGame
    /\ ttl = NoTtl
    /\ guest = NoGuest

Invoke_add_verifier(signer, selector, verifier) ==
    LET t == add_verifier(owner, storage, signer, selector, verifier)
    IN  /\ storage' = t.store
        /\ last' = Invocation("add_verifier", signer, selector, verifier, NoBytes,
                              NoBytes, NoBytes, NoBytes,
                              [result |-> t.result, reads |-> t.reads,
                               ext |-> {}, seen |-> t.seen, calls |-> <<>>])
        /\ UNCHANGED <<owner, vstore, txs, game, ttl, guest>>

Invoke_remove_verifier(signer, selector) ==
    LET t == remove_verifier(owner, storage, signer, selector)
    IN  /\ storage' = t.store
        /\ last' = Invocation("remove_verifier", signer, selector, NoAddr, NoBytes,
                              NoBytes, NoBytes, NoBytes,
                              [result |-> t.result, reads |-> t.reads,
                               ext |-> {}, seen |-> t.seen, calls |-> <<>>])
        /\ UNCHANGED <<owner, vstore, txs, game, ttl, guest>>

Invoke_verifiers(signer, selector) ==
    LET t == verifiers(storage, selector)
    IN  /\ last' = Invocation("verifiers", signer, selector, NoAddr, NoBytes,
                              NoBytes, NoBytes, NoBytes,
                              [result |-> t.result, reads |-> t.reads,
                               ext |-> t.ext, seen |-> t.seen, calls |-> <<>>])
        /\ UNCHANGED <<owner, storage, vstore, txs, game, ttl, guest>>

Invoke_get_verifier_by_selector(signer, selector) ==
    LET t == get_verifier_by_selector(storage, selector)
    IN  /\ last' = Invocation("get_verifier_by_selector", signer, selector, NoAddr,
                              NoBytes, NoBytes, NoBytes, NoBytes,
                              [result |-> t.result, reads |-> t.reads,
                               ext |-> t.ext, seen |-> t.seen, calls |-> <<>>])
        /\ UNCHANGED <<owner, storage, vstore, txs, game, ttl, guest>>

Invoke_get_verifier_from_seal(signer, seal) ==
    LET t == get_verifier_from_seal(storage, seal)
    IN  /\ last' = Invocation("get_verifier_from_seal", signer, NoSel, NoAddr,
                              seal, NoBytes, NoBytes, NoBytes,
                              [result |-> t.result, reads |-> t.reads,
                               ext |-> t.ext, seen |-> t.seen, calls |-> <<>>])
        /\ UNCHANGED <<owner, storage, vstore, txs, game, ttl, guest>>

Invoke_verify(signer, seal, image_id, journal) ==
    LET t == verify(storage, vstore, seal, image_id, journal)
    IN  /\ vstore' = t.vs
        /\ last' = Invocation("verify", signer, NoSel, NoAddr, seal, image_id,
                              journal, NoBytes, t)
        /\ UNCHANGED <<owner, storage, txs, game, ttl, guest>>

Invoke_verify_integrity(signer, receipt) ==
    LET t == verify_integrity(storage, vstore, receipt)
    IN  /\ vstore' = t.vs
        /\ last' = Invocation("verify_integrity", signer, NoSel, NoAddr, receipt.seal,
                              NoBytes, NoBytes, receipt.claim_digest, t)
        /\ UNCHANGED <<owner, storage, txs, game, ttl, guest>>

\* The test harness configures a registered verifier to fail.
Invoke_set_should_fail(verifier, should_fail) ==
    /\ vstore' = [vstore EXCEPT ![verifier] = set_should_fail(@, should_fail)]
    /\ last' = Invocation("set_should_fail", "admin", NoSel, verifier, NoBytes,
                          NoBytes, NoBytes, NoBytes, NoTrace)
    /\ UNCHANGED <<owner, storage, txs, game, ttl, guest>>

Next ==
    \/ \E signer \in Accounts, sel \in AdminSelectors, v \in Verifiers :
           Invoke_add_verifier(signer, sel, v)
    \/ \E signer \in Accounts, sel \in AdminSelectors :
           Invoke_remove_verifier(signer, sel)
    \/ \E sel \in QuerySelectors : Invoke_verifiers("mallory", sel)
    \/ \E sel \in QuerySelectors : Invoke_get_verifier_by_selector("mallory", sel)
    \/ \E seal \in Seals : Invoke_get_verifier_from_seal("mallory", seal)
    \/ \E seal \in Seals, i \in ImageIds, j \in Journals :
           Invoke_verify("mallory", seal, i, j)
    \/ \E seal \in Seals, d \in RawDigests :
           Invoke_verify_integrity("mallory", Receipt(seal, d))

Spec == Init /\ [][Next]_vars

\* create_seal_with_selector: the selector followed by zero bytes.
RoutedSeals == {sel \o <<0>> : sel \in QuerySelectors}

\* The router in front of recording verifiers, driven as the routing tests do.
NextRecording ==
    \/ \E sel \in AdminSelectors, v \in Verifiers :
           Invoke_add_verifier("admin", sel, v)
    \/ \E sel \in AdminSelectors : Invoke_remove_verifier("admin", sel)
    \/ \E seal \in RoutedSeals, i \in ImageIds, j \in Journals :
           Invoke_verify("mallory", seal, i, j)
    \/ \E seal \in RoutedSeals : Invoke_verify_integrity("mallory", Receipt(seal, <<0>>))
    \/ \E v \in Verifiers, b \in BOOLEAN : Invoke_set_should_fail(v, b)

SpecRecording == InitRecording /\ [][NextRecording]_vars

----------------------------------------------------------------------------
(* Concurrent transactions.  The ledger applies the submitted transactions *)
(* one at a time, in an order of its choosing; each runs to completion.    *)

\* A submitted transaction: an owner operation on a selector.
Tx(op, signer, sel, addr) ==
    [ op |-> op, signer |-> signer, sel |-> sel, addr |-> addr,
      status |-> "pending", at |-> 0, result |-> Ok, seen |-> None ]

\* MaxRacers add_verifier transactions by the owner on one selector, with or
\* without a remove_verifier of that selector submitted alongside.
Races ==
    { [i \in 1..(MaxRacers + n) |->
          IF i <= MaxRacers THEN Tx("add_verifier", "admin", sel, a[i])
          ELSE Tx("remove_verifier", "admin", sel, NoAddr)] :
      sel \in AdminSelectors, a \in [1..MaxRacers -> Verifiers], n \in {0, 1} }

\* The number of transactions the ledger has applied.
Applied == Cardinality({i \in DOMAIN txs : txs[i].status = "applied"})

InitConcurrent ==
    /\ RouterInit
    /\ vstore = [v \in Verifiers |->
                    RiscZeroMockVerifier_new(IF v = "vA" THEN SelOf(0) ELSE SelOf(1))]
    /\ txs \in Races
    /\ game = NoGame
    /\ ttl = NoTtl
    /\ guest = NoGuest

\* The ledger applies the pending transaction i as its next one.
Apply(i) ==
    /\ txs[i].status = "pending"
    /\ LET tx == txs[i]
           t  == IF tx.op = "add_verifier"
                 THEN add_verifier(owner, storage, tx.signer, tx.sel, tx.addr)
                 ELSE remove_verifier(owner, storage, tx.signer, tx.sel)
       IN  /\ storage' = t.store
           /\ last' = Invocation(tx.op, tx.signer, tx.sel, tx.addr, NoBytes,
                                 NoBytes, NoBytes, NoBytes,
                                 [result |-> t.result, reads |-> t.reads,
                                  ext |-> {}, seen |-> t.seen, calls |-> <<>>])
           /\ txs' = [txs EXCEPT ![i] = [tx EXCEPT !.status = "applied",
                                                   !.at = Applied + 1,
                                                   !.result = t.result,
                                                   !.seen = t.seen]]
    /\ UNCHANGED <<owner, vstore, game, ttl, guest>>

NextConcurrent == \E i \in DOMAIN txs : Apply(i)

SpecConcurrent == InitConcurrent /\ [][NextConcurrent]_vars

----------------------------------------------------------------------------
(* The development verifier invoked directly, as its tests do              *)
(* (mock-verifier/src/test.rs).  Digests have their 32 bytes here.         *)

DigestSize == 32

\* BytesN::from_array(&env, &[b; 32])
Fill(b) == [i \in 1..DigestSize |-> b]

\* The selector of the tests' setup, and the one with its first byte flipped.
TestSelector == <<17, 34, 51, 68>>
FlippedSelector == <<238, 34, 51, 68>>
MockSelectors == {TestSelector, FlippedSelector}

MockImageIds == {Fill(1)}
MockJournals == {Fill(2), Fill(3)}
\* Digests given as they are, and digests of the claims over the inputs above.
GivenDigests == {Fill(171), Fill(187)}
ClaimDigests ==
    GivenDigests \cup
    {ReceiptClaim_digest(ReceiptClaim_new(i, j)) : i \in MockImageIds, j \in MockJournals}

\* Seals: a selector followed by a digest, by nothing or by a single byte,
\* and the seals too short to hold a selector.
MockSeals ==
    {sel \o body : sel \in MockSelectors, body \in ClaimDigests \cup {<<>>, <<171>>}}
    \cup {SubSeq(sel, 1, n) : sel \in MockSelectors, n \in 0..3}

\* A direct invocation of a verifier and what it returned.
MockInvocation(op, to, seal, image_id, journal, claim_digest, t) ==
    [ op |-> op, to |-> to, seal |-> seal, image_id |-> image_id,
      journal |-> journal, claim_digest |-> claim_digest,
      result |-> t.result, receipt |-> t.receipt ]

\* Two development verifiers are deployed, each with a selector.
InitMock ==
    /\ owner = "admin"
    /\ storage = [k \in {} |-> None]
    /\ txs = NoTxs
    /\ game = NoGame
    /\ ttl = NoTtl
    /\ guest = NoGuest
    /\ \E sel \in [Verifiers -> MockSelectors] :
          vstore = [v \in Verifiers |-> RiscZeroMockVerifier_new(sel[v])]
    /\ last = MockInvocation("__constructor", NoAddr, NoBytes, NoBytes, NoBytes,
                              NoBytes, [result |-> Ok, receipt |-> NoReceipt])

Invoke_mock_prove(v, image_id, journal_digest) ==
    /\ last' = MockInvocation("mock_prove", v, NoBytes, image_id, journal_digest,
                               NoBytes, mock_prove(vstore[v], image_id, journal_digest))
    /\ UNCHANGED <<owner, storage, vstore, txs, game, ttl, guest>>

Invoke_mock_prove_claim(v, claim_digest) ==
    /\ last' = MockInvocation("mock_prove_claim", v, NoBytes, NoBytes, NoBytes,
                               claim_digest, mock_prove_claim(vstore[v], claim_digest))
    /\ UNCHANGED <<owner, storage, vstore, txs, game, ttl, guest>>

Invoke_mock_verify(v, seal, image_id, journal) ==
    LET t == RiscZeroMockVerifier_verify(vstore[v], seal, image_id, journal)
    IN  /\ vstore' = [vstore EXCEPT ![v] = t.st]
        /\ last' = MockInvocation("verify", v, seal, image_id, journal, NoBytes,
                                   [result |-> t.result, receipt |-> NoReceipt])
        /\ UNCHANGED <<owner, storage, txs, game, ttl, guest>>

Invoke_mock_verify_integrity(v, receipt) ==
    LET t == RiscZeroMockVerifier_verify_integrity(vstore[v], receipt)
    IN  /\ vstore' = [vstore EXCEPT ![v] = t.st]
        /\ last' = MockInvocation("verify_integrity", v, receipt.seal, NoBytes,
                                   NoBytes, receipt.claim_digest,
                                   [result |-> t.result, receipt |-> NoReceipt])
        /\ UNCHANGED <<owner, storage, txs, game, ttl, guest>>

\* An invocation of selector() and the selector it returned.
SelectorInvocation(to, t) ==
    [ op |-> "selector", to |-> to, seal |-> NoBytes, image_id |-> NoBytes,
      journal |-> NoBytes, claim_digest |-> NoBytes,
      result |-> t.result, receipt |-> NoReceipt, selector |-> t.sel ]

Invoke_mock_selector(v) ==
    /\ last' = SelectorInvocation(v, RiscZeroMockVerifier_selector(vstore[v]))
    /\ UNCHANGED <<owner, storage, vstore, txs, game, ttl, guest>>

NextMock ==
    \/ \E v \in Verifiers : Invoke_mock_selector(v)
    \/ \E v \in Verifiers, i \in MockImageIds, j \in MockJournals :
           Invoke_mock_prove(v, i, j)
    \/ \E v \in Verifiers, d \in GivenDigests : Invoke_mock_prove_claim(v, d)
    \/ \E v \in Verifiers, seal \in MockSeals, i \in MockImageIds, j \in MockJournals :
           Invoke_mock_verify(v, seal, i, j)
    \/ \E v \in Verifiers, seal \in MockSeals, d \in ClaimDigests :
           Invoke_mock_verify_integrity(v, Receipt(seal, d))

SpecMock == InitMock /\ [][NextMock]_vars

----------------------------------------------------------------------------
(* The router in front of the two backends: vA is the Groth16 verifier, vB *)
(* a development verifier with the tests' selector.                        *)

BackendSelectors == {Groth16Selector, TestSelector}
BackendDigests ==
    {Fill(171)} \cup
    {ReceiptClaim_digest(ReceiptClaim_new(i, j)) : i \in MockImageIds, j \in {Fill(2)}}

\* A bare selector, a selector with a digest (the seal of the development
\* verifier), a selector with a proof (the seal of the Groth16 verifier), and
\* the start of a selector.
BackendSeals ==
    UNION {{sel, SubSeq(sel, 1, 3)}
           \cup {sel \o d : d \in BackendDigests}
           \cup {sel \o Groth16Prove(d) : d \in BackendDigests} : sel \in BackendSelectors}

InitBackends ==
    /\ RouterInit
    /\ vstore = [v \in Verifiers |->
                    IF v = "vA" THEN RiscZeroGroth16Verifier_new
                    ELSE RiscZeroMockVerifier_new(TestSelector)]
    /\ txs = NoTxs
    /\ game = NoGame
    /\ ttl = NoTtl
    /\ guest = NoGuest

NextBackends ==
    \/ \E sel \in BackendSelectors, v \in Verifiers :
           Invoke_add_verifier("admin", sel, v)
    \/ \E sel \in BackendSelectors : Invoke_remove_verifier("admin", sel)
    \/ \E seal \in BackendSeals, i \in MockImageIds :
           Invoke_verify("mallory", seal, i, Fill(2))
    \/ \E seal \in BackendSeals, d \in BackendDigests :
           Invoke_verify_integrity("mallory", Receipt(seal, d))

SpecBackends == InitBackends /\ [][NextBackends]_vars

----------------------------------------------------------------------------
(* The seal codec of the Groth16 verifier applied to byte strings          *)
(* (groth16-verifier/src/types.rs).                                        *)

\* TEST_SEAL of the verifier's tests
TEST_SEAL ==
    << 115, 196, 87, 186, 0, 237, 128, 235, 234, 82, 162, 215, 108, 219, 83, 253,
       51, 151, 104, 190, 16, 27, 191, 115, 52, 20, 229, 22, 168, 155, 98, 214,
       70, 109, 143, 168, 39, 163, 217, 215, 117, 155, 119, 189, 172, 46, 218, 8,
       164, 36, 138, 163, 47, 66, 185, 51, 132, 186, 120, 68, 221, 173, 16, 91,
       83, 154, 236, 240, 16, 135, 147, 199, 205, 147, 71, 212, 179, 74, 227, 197,
       227, 148, 79, 255, 80, 116, 63, 60, 170, 174, 73, 33, 155, 190, 178, 211,
       40, 104, 86, 133, 10, 5, 96, 15, 143, 195, 135, 173, 205, 13, 185, 87,
       103, 138, 0, 115, 115, 112, 161, 19, 129, 254, 146, 216, 198, 153, 50, 139,
       200, 104, 181, 15, 38, 239, 108, 112, 252, 67, 176, 221, 131, 101, 167, 44,
       11, 201, 135, 216, 18, 128, 33, 146, 39, 28, 36, 140, 236, 249, 13, 70,
       58, 47, 111, 147, 24, 26, 248, 151, 128, 30, 5, 148, 41, 172, 252, 33,
       245, 34, 165, 60, 97, 133, 128, 111, 105, 241, 23, 184, 109, 191, 86, 40,
       187, 198, 73, 117, 2, 109, 28, 132, 149, 6, 243, 7, 121, 100, 208, 124,
       26, 204, 213, 137, 61, 33, 83, 93, 40, 164, 222, 86, 35, 238, 99, 177,
       16, 168, 241, 210, 8, 57, 248, 143, 79, 105, 86, 248, 56, 157, 41, 90,
       192, 78, 112, 102, 135, 217, 204, 56, 22, 57, 168, 230, 57, 33, 30, 155,
       70, 128, 49, 27 >>

\* The lengths of the byte strings handed to the codec: around nothing, a
\* selector, a point, a proof and a seal.
CodecLengths ==
    {0, 1, 3, SELECTOR_SIZE, 5, G1_SIZE, G2_SIZE,
     G1_SIZE + G2_SIZE - 1, G1_SIZE + G2_SIZE, G1_SIZE + G2_SIZE + 1,
     PROOF_SIZE - 1, PROOF_SIZE, PROOF_SIZE + 1, SELECTOR_SIZE + G2_SIZE + G1_SIZE,
     SEAL_SIZE - 1, SEAL_SIZE, SEAL_SIZE + 1, SEAL_SIZE + PROOF_SIZE}

\* Byte strings of a length: each byte its own offset, all bytes 0x00, all
\* bytes 0xFF, and the start of TEST_SEAL repeated.
CodecBytes(n) ==
    { [i \in 1..n |-> (i - 1) % 256],
      [i \in 1..n |-> 0],
      [i \in 1..n |-> 255],
      [i \in 1..n |-> TEST_SEAL[((i - 1) % Len(TEST_SEAL)) + 1]] }

CodecValues == UNION {CodecBytes(n) : n \in CodecLengths}

\* What a cooperative encoder emits for a selector and a proof.
Groth16Seal_encode(selector, proof) == selector \o proof.a \o proof.b \o proof.c

\* An application of the codec and what it returned.
CodecInvocation(op, value, t) ==
    [ op |-> op, value |-> value, result |-> t.result,
      selector |-> t.selector, proof |-> t.proof ]

InitCodec ==
    /\ owner = "admin"
    /\ storage = [k \in {} |-> None]
    /\ txs = NoTxs
    /\ game = NoGame
    /\ ttl = NoTtl
    /\ guest = NoGuest
    /\ vstore = [v \in Verifiers |-> RiscZeroGroth16Verifier_new]
    /\ last = CodecInvocation("none", NoBytes,
                               [result |-> Ok, selector |-> NoSel, proof |-> NoProof])

Apply_Groth16Seal_try_from(value) ==
    /\ last' = CodecInvocation("Groth16Seal::try_from", value,
                                Groth16Seal_try_from(value))
    /\ UNCHANGED <<owner, storage, vstore, txs, game, ttl, guest>>

Apply_Groth16Proof_try_from(value) ==
    LET t == Groth16Proof_try_from(value)
    IN  /\ last' = CodecInvocation("Groth16Proof::try_from", value,
                                    [result |-> t.result, selector |-> NoSel,
                                     proof |-> t.proof])
        /\ UNCHANGED <<owner, storage, vstore, txs, game, ttl, guest>>

NextCodec ==
    \/ \E value \in CodecValues : Apply_Groth16Seal_try_from(value)
    \/ \E value \in CodecValues : Apply_Groth16Proof_try_from(value)

SpecCodec == InitCodec /\ [][NextCodec]_vars

----------------------------------------------------------------------------
(* The receipt claim functions applied to claims (interface/src/types.rs). *)

\* User exit codes (BytesN<8>): zero, a fourth byte alone, the same fourth
\* byte among other bytes, and eight different bytes.
UserCodes ==
    { <<0, 0, 0, 0, 0, 0, 0, 0>>,
      <<0, 0, 0, 7, 0, 0, 0, 0>>,
      <<9, 0, 0, 7, 0, 0, 0, 0>>,
      <<0, 0, 255, 7, 0, 0, 0, 5>>,
      <<1, 2, 3, 4, 5, 6, 7, 8>>,
      <<128, 0, 0, 255, 0, 0, 0, 0>> }

\* Outputs
Outputs ==
    [ journal_digest : {Fill(2), Fill(3)},
      assumptions_digest : {ZeroDigest, Fill(4)} ]

\* Receipt claims, built field by field.
Claims ==
    [ pre_state_digest  : {Fill(1), Fill(17)},
      post_state_digest : {POST_STATE_DIGEST_HALTED, Fill(18)},
      exit_code         : [system : {Halted, Paused, SystemSplit}, user : UserCodes],
      input             : {ZeroDigest, Fill(19)},
      output            : {Fill(20), Fill(21)} ]

NoOutput == [journal_digest |-> NoBytes, assumptions_digest |-> NoBytes]
NoClaim ==
    [ pre_state_digest |-> NoBytes, post_state_digest |-> NoBytes,
      exit_code |-> [system |-> Halted, user |-> NoBytes],
      input |-> NoBytes, output |-> NoBytes ]

\* An application of a receipt claim function: its arguments, the claim it
\* built or was given, the bytes it hashed and the digest it returned.
ClaimInvocation(op, image_id, journal_digest, output, claim, preimage, digest) ==
    [ op |-> op, image_id |-> image_id, journal_digest |-> journal_digest,
      output |-> output, claim |-> claim, preimage |-> preimage, digest |-> digest ]

InitClaim ==
    /\ owner = "admin"
    /\ storage = [k \in {} |-> None]
    /\ txs = NoTxs
    /\ game = NoGame
    /\ ttl = NoTtl
    /\ guest = NoGuest
    /\ vstore = [v \in Verifiers |-> RiscZeroMockVerifier_new(TestSelector)]
    /\ last = ClaimInvocation("none", NoBytes, NoBytes, NoOutput, NoClaim,
                               NoBytes, NoBytes)

Apply_ReceiptClaim_new(image_id, journal_digest) ==
    /\ last' = ClaimInvocation("ReceiptClaim::new", image_id, journal_digest,
                                NoOutput, ReceiptClaim_new(image_id, journal_digest),
                                NoBytes, NoBytes)
    /\ UNCHANGED <<owner, storage, vstore, txs, game, ttl, guest>>

Apply_Output_digest(output) ==
    /\ last' = ClaimInvocation("Output::digest", NoBytes, NoBytes, output, NoClaim,
                                Output_preimage(output), Output_digest(output))
    /\ UNCHANGED <<owner, storage, vstore, txs, game, ttl, guest>>

Apply_ReceiptClaim_digest(claim) ==
    /\ last' = ClaimInvocation("ReceiptClaim::digest", NoBytes, NoBytes, NoOutput,
                                claim, ReceiptClaim_preimage(claim),
                                ReceiptClaim_digest(claim))
    /\ UNCHANGED <<owner, storage, vstore, txs, game, ttl, guest>>

NextClaim ==
    \/ \E i \in MockImageIds \cup {Fill(17)}, j \in MockJournals :
           Apply_ReceiptClaim_new(i, j)
    \/ \E output \in Outputs : Apply_Output_digest(output)
    \/ \E claim \in Claims : Apply_ReceiptClaim_digest(claim)
    \/ \E i \in MockImageIds, j \in MockJournals :
           Apply_ReceiptClaim_digest(ReceiptClaim_new(i, j))

SpecClaim == InitClaim /\ [][NextClaim]_vars

----------------------------------------------------------------------------
(* The game contract LaneRacerContract (lane-racer/src/lib.rs) and the     *)
(* game hub it calls.  The hub is another contract: a call to it returns   *)
(* or traps, and a trap aborts the invocation that made the call.          *)

\* Scores recorded on the leaderboard by the invocations explored.
MaxBoard == 2

GameHubs == {"hub"}
Scores == {5, 9}

\* ZKProof { seal: BytesN<64>, journal: BytesN<32> }
ZKProof(b) == [seal |-> [i \in 1..64 |-> b], journal |-> [i \in 1..32 |-> b]]
Proofs == {ZKProof(0), ZKProof(1)}
NoZKProof == [seal |-> NoBytes, journal |-> NoBytes]

\* Address::require_auth: the address signed the invocation.
require_auth(signer, address) == signer = address

\* env.invoke_contract on the game hub: the call and how it ended.
HubCall(game_hub, fn, args, hub_ok) ==
    [ to |-> game_hub, fn |-> fn, args |-> args,
      result |-> IF hub_ok THEN Ok ELSE Trap("InvokeContract") ]

\* LaneRacerContract::init
LaneRacerContract_init(g, signer, admin, game_hub) ==
    IF ~require_auth(signer, admin)
    THEN [g |-> g, result |-> Trap("Auth"), calls |-> <<>>]
    ELSE [g |-> [g EXCEPT !.admin = admin, !.game_hub = game_hub,
                          !.leaderboard = <<>>],
          result |-> Ok, calls |-> <<>>]

\* Mutant: the hub's failure is ignored and the session stored all the same.
LaneRacerContract_start_game_ignores_hub(g, signer, session_id, player, hub_ok) ==
    IF ~require_auth(signer, player)
    THEN [g |-> g, result |-> Trap("Auth"), calls |-> <<>>]
    ELSE IF g.game_hub = NoAddr
    THEN [g |-> g, result |-> Err("NotInitialized"), calls |-> <<>>]
    ELSE IF g.sessions[session_id] # NoSession
    THEN [g |-> g, result |-> Err("SessionExists"), calls |-> <<>>]
    ELSE [g |-> [g EXCEPT !.sessions[session_id] =
                     [session_id |-> session_id, player |-> player,
                      score |-> 0, active |-> TRUE]],
          result |-> Ok,
          calls |-> <<HubCall(g.game_hub, "start_game",
                              [game |-> "lane-racer", session_id |-> session_id,
                               player1 |-> player, player2 |-> player,
                               player1_points |-> 1000, player2_points |-> 1000],
                              hub_ok)>>]

\* Mutant: a session id already in use is started afresh.
LaneRacerContract_start_game_restarts(g, signer, session_id, player, hub_ok) ==
    IF ~require_auth(signer, player)
    THEN [g |-> g, result |-> Trap("Auth"), calls |-> <<>>]
    ELSE IF g.game_hub = NoAddr
    THEN [g |-> g, result |-> Err("NotInitialized"), calls |-> <<>>]
    ELSE LET call == HubCall(g.game_hub, "start_game",
                             [game |-> "lane-racer", session_id |-> session_id,
                              player1 |-> player, player2 |-> player,
                              player1_points |-> 1000, player2_points |-> 1000],
                             hub_ok)
         IN  IF call.result.status # "Ok"
             THEN [g |-> g, result |-> call.result, calls |-> <<call>>]
             ELSE [g |-> [g EXCEPT !.sessions[session_id] =
                              [session_id |-> session_id, player |-> player,
                               score |-> 0, active |-> TRUE]],
                   result |-> Ok, calls |-> <<call>>]

\* LaneRacerContract::start_game
LaneRacerContract_start_game(g, signer, session_id, player, hub_ok) ==
    IF ~require_auth(signer, player)
    THEN [g |-> g, result |-> Trap("Auth"), calls |-> <<>>]
    ELSE IF g.game_hub = NoAddr
    THEN [g |-> g, result |-> Err("NotInitialized"), calls |-> <<>>]
    ELSE IF g.sessions[session_id] # NoSession
    THEN [g |-> g, result |-> Err("SessionExists"), calls |-> <<>>]
    ELSE LET call == HubCall(g.game_hub, "start_game",
                             [game |-> "lane-racer", session_id |-> session_id,
                              player1 |-> player, player2 |-> player,
                              player1_points |-> 1000, player2_points |-> 1000],
                             hub_ok)
         IN  IF call.result.status # "Ok"
             THEN [g |-> g, result |-> call.result, calls |-> <<call>>]
             ELSE [g |-> [g EXCEPT !.sessions[session_id] =
                              [session_id |-> session_id, player |-> player,
                               score |-> 0, active |-> TRUE]],
                   result |-> Ok, calls |-> <<call>>]

\* Mutant: the player given is not compared with the player of the session.
LaneRacerContract_submit_score_any_player(g, signer, session_id, player, score, proof, hub_ok) ==
    IF ~require_auth(signer, player)
    THEN [g |-> g, result |-> Trap("Auth"), calls |-> <<>>]
    ELSE IF g.sessions[session_id] = NoSession
    THEN [g |-> g, result |-> Err("SessionNotFound"), calls |-> <<>>]
    ELSE IF g.game_hub = NoAddr
    THEN [g |-> g, result |-> Err("NotInitialized"), calls |-> <<>>]
    ELSE LET call == HubCall(g.game_hub, "end_game",
                             [session_id |-> session_id, player1_won |-> TRUE],
                             hub_ok)
         IN  IF call.result.status # "Ok"
             THEN [g |-> g, result |-> call.result, calls |-> <<call>>]
             ELSE [g |-> [g EXCEPT
                            !.sessions[session_id].score = score,
                            !.sessions[session_id].active = FALSE,
                            !.leaderboard = Append(@, [player |-> player,
                                                       score |-> score])],
                   result |-> Ok, calls |-> <<call>>]

\* LaneRacerContract::submit_score.  The proof is a parameter the body never
\* reads: no verifier is called.
LaneRacerContract_submit_score(g, signer, session_id, player, score, proof, hub_ok) ==
    IF ~require_auth(signer, player)
    THEN [g |-> g, result |-> Trap("Auth"), calls |-> <<>>]
    ELSE IF g.sessions[session_id] = NoSession
    THEN [g |-> g, result |-> Err("SessionNotFound"), calls |-> <<>>]
    ELSE IF g.sessions[session_id].player # player
    THEN [g |-> g, result |-> Err("NotAuthorized"), calls |-> <<>>]
    ELSE IF g.game_hub = NoAddr
    THEN [g |-> g, result |-> Err("NotInitialized"), calls |-> <<>>]
    ELSE LET call == HubCall(g.game_hub, "end_game",
                             [session_id |-> session_id, player1_won |-> TRUE],
                             hub_ok)
         IN  IF call.result.status # "Ok"
             THEN [g |-> g, result |-> call.result, calls |-> <<call>>]
             ELSE [g |-> [g EXCEPT
                            !.sessions[session_id].score = score,
                            !.sessions[session_id].active = FALSE,
                            !.leaderboard = Append(@, [player |-> player,
                                                       score |-> score])],
                   result |-> Ok, calls |-> <<call>>]

\* LaneRacerContract::get_leaderboard
get_leaderboard(g) == g.leaderboard

\* LaneRacerContract::get_session (NoSession stands for Option::None)
get_session(g, session_id) == g.sessions[session_id]

\* An invocation of the game contract: its arguments, its result, the calls
\* it made to other contracts, and what a getter returned.
GameInvocation(op, signer, session_id, player, score, proof, t, session, board) ==
    [ op |-> op, signer |-> signer, session_id |-> session_id, player |-> player,
      score |-> score, proof |-> proof, result |-> t.result, calls |-> t.calls,
      session |-> session, board |-> board ]

\* The game contract is deployed and not yet initialised.
InitGame ==
    /\ owner = "admin"
    /\ storage = [k \in {} |-> None]
    /\ vstore = [v \in Verifiers |-> RiscZeroMockVerifier_new(TestSelector)]
    /\ txs = NoTxs
    /\ game = NoGame
    /\ ttl = NoTtl
    /\ guest = NoGuest
    /\ last = GameInvocation("__constructor", NoAddr, 0, NoAddr, 0, NoZKProof,
                              [result |-> Ok, calls |-> <<>>], NoSession, <<>>)

Invoke_init(signer, admin, game_hub) ==
    LET t == LaneRacerContract_init(game, signer, admin, game_hub)
    IN  /\ game' = t.g
        /\ last' = GameInvocation("init", signer, 0, admin, 0, NoZKProof, t,
                                   NoSession, <<>>)
        /\ UNCHANGED <<owner, storage, vstore, txs, ttl, guest>>

Invoke_start_game(signer, session_id, player, hub_ok) ==
    LET t == LaneRacerContract_start_game(game, signer, session_id, player, hub_ok)
    IN  /\ game' = t.g
        /\ last' = GameInvocation("start_game", signer, session_id, player, 0,
                                   NoZKProof, t, NoSession, <<>>)
        /\ UNCHANGED <<owner, storage, vstore, txs, ttl, guest>>

Invoke_submit_score(signer, session_id, player, score, proof, hub_ok) ==
    /\ Len(game.leaderboard) < MaxBoard
    /\ LET t == LaneRacerContract_submit_score(game, signer, session_id, player,
                                               score, proof, hub_ok)
       IN  /\ game' = t.g
           /\ last' = GameInvocation("submit_score", signer, session_id, player,
                                      score, proof, t, NoSession, <<>>)
    /\ UNCHANGED <<owner, storage, vstore, txs, ttl, guest>>

Invoke_get_leaderboard ==
    /\ last' = GameInvocation("get_leaderboard", NoAddr, 0, NoAddr, 0, NoZKProof,
                               [result |-> Ok, calls |-> <<>>], NoSession,
                               get_leaderboard(game))
    /\ UNCHANGED <<owner, storage, vstore, txs, game, ttl, guest>>

Invoke_get_session(session_id) ==
    /\ last' = GameInvocation("get_session", NoAddr, session_id, NoAddr, 0,
                               NoZKProof, [result |-> Ok, calls |-> <<>>],
                               get_session(game, session_id), <<>>)
    /\ UNCHANGED <<owner, storage, vstore, txs, game, ttl, guest>>

NextGame ==
    \/ \E signer \in Accounts, admin \in Accounts, game_hub \in GameHubs :
           Invoke_init(signer, admin, game_hub)
    \/ \E signer \in Accounts, id \in SessionIds, player \in Accounts,
          hub_ok \in BOOLEAN :
           Invoke_start_game(signer, id, player, hub_ok)
    \/ \E signer \in Accounts, id \in SessionIds, player \in Accounts,
          score \in Scores, proof \in Proofs, hub_ok \in BOOLEAN :
           Invoke_submit_score(signer, id, player, score, proof, hub_ok)
    \/ Invoke_get_leaderboard
    \/ \E id \in SessionIds : Invoke_get_session(id)

SpecGame == InitGame /\ [][NextGame]_vars

----------------------------------------------------------------------------
(* The guest program (lane_racer_prover/methods/guest/src/main.rs): the    *)
(* simulation of a game from a seed and the player's actions.  A u64 is    *)
(* its 8 bytes, least significant first, so that the generator wraps as    *)
(* the code's does.                                                        *)

LANES == 3
BASE_SPEED_SCALE == 100
SPEED_INCREMENT == 25
OBSTACLES_PER_SPEED_UP == 15
base_speed_px == 6
canvas_height == 600
player_y == canvas_height - 200
player_height == 100

\* Actions read from the input before the loop ends for lack of them.
MaxTicks == 1030

\* The seeds, the player and the game of the inputs explored.
Seeds == {51625}
PlayerAddresses == {"GPLAYER"}
GameIds == {7}
\* The action bytes: stay, left, right, and two values with no meaning.
ActionBytes == {0, 1, 2, 3, 255}

RECURSIVE LeBytes(_, _)
LeBytes(n, k) == IF k = 0 THEN <<>> ELSE <<n % 256>> \o LeBytes(n \div 256, k - 1)

\* A u64 that fits 31 bits, as its 8 bytes.
U64(n) == LeBytes(n, 8)

RECURSIVE Xor8(_, _, _)
Xor8(a, b, bits) ==
    IF bits = 0 THEN 0
    ELSE ((a + b) % 2) + 2 * Xor8(a \div 2, b \div 2, bits - 1)

\* a ^ b on u64
U64_xor(a, b) == [i \in 1..8 |-> Xor8(a[i], b[i], 8)]

RECURSIVE MulColumn(_, _, _, _)
MulColumn(a, b, k, i) ==
    IF i > k THEN 0 ELSE a[i] * b[k + 1 - i] + MulColumn(a, b, k, i + 1)

RECURSIVE MulFrom(_, _, _, _)
MulFrom(a, b, k, carry) ==
    IF k > 8 THEN <<>>
    ELSE LET t == carry + MulColumn(a, b, k, 1)
         IN  <<t % 256>> \o MulFrom(a, b, k + 1, t \div 256)

\* u64::wrapping_mul: the product modulo 2^64
wrapping_mul(a, b) == MulFrom(a, b, 1, 0)

RECURSIVE AddFrom(_, _, _, _)
AddFrom(a, b, k, carry) ==
    IF k > 8 THEN <<>>
    ELSE LET t == carry + a[k] + b[k]
         IN  <<t % 256>> \o AddFrom(a, b, k + 1, t \div 256)

\* u64::wrapping_add: the sum modulo 2^64
wrapping_add(a, b) == AddFrom(a, b, 1, 0)

RECURSIVE RemFrom(_, _, _, _)
RemFrom(a, m, k, r) ==
    IF k = 0 THEN r ELSE RemFrom(a, m, k - 1, (r * 256 + a[k]) % m)

\* a % m for a u64 a and a small m
U64_rem(a, m) == RemFrom(a, m, 8, 0)

\* 0x9e3779b97f4a7c15, 6364136223846793005 and 1442695040888963407
RngMask == <<21, 124, 74, 127, 185, 121, 55, 158>>
RngMultiplier == <<45, 127, 149, 76, 45, 244, 81, 88>>
RngIncrement == <<79, 129, 103, 247, 126, 123, 5, 20>>

\* Rng::new
Rng_new(seed) == [state |-> U64_xor(seed, RngMask)]

\* Rng::next_u64: the generator after the draw, and the value drawn
Rng_next_u64(rng) ==
    LET state == wrapping_add(wrapping_mul(rng.state, RngMultiplier), RngIncrement)
    IN  [rng |-> [state |-> state], value |-> state]

\* Rng::next_usize
Rng_next_usize(rng, max) ==
    LET d == Rng_next_u64(rng)
    IN  [rng |-> d.rng, value |-> U64_rem(d.value, max)]

\* Rng::next_f32() > 0.6.  The f32 drawn is the upper 32 bits of the draw,
\* rounded to 24 significant bits, over 2^32 (u32::MAX as f32); 0.6 as f32
\* is 0x9999_9A00 over 2^32, and the upper 32 bits round to more than that
\* exactly when they exceed 0x9999_9A80 (the tie rounds to even, downwards).
Rng_next_f32_above_0_6(rng) ==
    LET d    == Rng_next_u64(rng)
        high == 256 * d.value[8] + d.value[7]
        low  == 256 * d.value[6] + d.value[5]
    IN  [rng |-> d.rng,
         value |-> high > 39321 \/ (high = 39321 /\ low > 39552)]

Obstacle(lane, y, passed) == [lane |-> lane, y |-> y, passed |-> passed]
Gem(lane, y, collected) == [lane |-> lane, y |-> y, collected |-> collected]

\* Mutant: the lane is moved without looking at the edge of the road.
move_player_unchecked(player_lane, action) ==
    CASE action = 1 -> player_lane - 1
      [] action = 2 -> player_lane + 1
      [] OTHER -> player_lane

\* match action { 1 if player_lane > 0 => .., 2 if player_lane < LANES - 1 => .., _ => {} }
move_player(player_lane, action) ==
    CASE action = 1 /\ player_lane > 0 -> player_lane - 1
      [] action = 2 /\ player_lane < LANES - 1 -> player_lane + 1
      [] OTHER -> player_lane

effective_speed(speed) == (base_speed_px * speed) \div BASE_SPEED_SCALE

\* Mutant: an obstacle below the player is counted at every tick.
move_obstacle_recounts(acc, obs, player_lane, step) ==
    LET y      == obs.y + step
        hit    == /\ ~obs.passed
                  /\ y + 20 > player_y
                  /\ y - 20 < player_y + player_height
                  /\ obs.lane = player_lane
        passes == y > player_y + player_height
        dodged == acc.obstacles_dodged + 1
    IN  [ obstacles |-> Append(acc.obstacles, Obstacle(obs.lane, y, obs.passed \/ passes)),
          collision |-> acc.collision \/ hit,
          obstacles_dodged |-> IF passes THEN dodged ELSE acc.obstacles_dodged,
          score |-> IF passes THEN acc.score + 2 ELSE acc.score,
          speed |-> IF passes /\ dodged % OBSTACLES_PER_SPEED_UP = 0
                    THEN acc.speed + SPEED_INCREMENT ELSE acc.speed ]

\* The body of the loop over the obstacles: the obstacle moves, collides
\* with the player, and is counted once it is below the player.
move_obstacle(acc, obs, player_lane, step) ==
    LET y      == obs.y + step
        hit    == /\ ~obs.passed
                  /\ y + 20 > player_y
                  /\ y - 20 < player_y + player_height
                  /\ obs.lane = player_lane
        passes == ~obs.passed /\ y > player_y + player_height
        dodged == acc.obstacles_dodged + 1
    IN  [ obstacles |-> Append(acc.obstacles, Obstacle(obs.lane, y, obs.passed \/ passes)),
          collision |-> acc.collision \/ hit,
          obstacles_dodged |-> IF passes THEN dodged ELSE acc.obstacles_dodged,
          score |-> IF passes THEN acc.score + 2 ELSE acc.score,
          speed |-> IF passes /\ dodged % OBSTACLES_PER_SPEED_UP = 0
                    THEN acc.speed + SPEED_INCREMENT ELSE acc.speed ]

RECURSIVE move_obstacles(_, _, _, _, _)
move_obstacles(acc, obstacles, i, player_lane, step) ==
    IF i > Len(obstacles) THEN acc
    ELSE move_obstacles(move_obstacle(acc, obstacles[i], player_lane, step),
                        obstacles, i + 1, player_lane, step)

\* The body of the loop over the gems: the gem moves and is collected when
\* it overlaps the player.
move_gem(acc, gem, player_lane, step) ==
    LET y        == gem.y + step
        collects == /\ ~gem.collected
                    /\ y + 20 > player_y
                    /\ y - 20 < player_y + player_height
                    /\ gem.lane = player_lane
    IN  [ gems |-> Append(acc.gems, Gem(gem.lane, y, gem.collected \/ collects)),
          gems_collected |-> IF collects THEN acc.gems_collected + 1
                             ELSE acc.gems_collected,
          score |-> IF collects THEN acc.score + 10 ELSE acc.score ]

RECURSIVE move_gems(_, _, _, _, _)
move_gems(acc, gems, i, player_lane, step) ==
    IF i > Len(gems) THEN acc
    ELSE move_gems(move_gem(acc, gems[i], player_lane, step),
                   gems, i + 1, player_lane, step)

\* Vec::retain
retain(seq, keep(_)) == SelectSeq(seq, keep)

\* (0.015 * (speed as f32 / BASE_SPEED_SCALE as f32) * 1000.0) as u64: in f32
\* arithmetic the integer part of 15 * speed / 100 for every speed up to 275.
spawn_prob(speed) == (15 * speed) \div BASE_SPEED_SCALE

\* (0..LANES).filter(|&l| !obstacles.iter().any(|o| o.lane == l && o.y > -350))
available_lanes(obstacles) ==
    LET free(l) == ~\E i \in 1..Len(obstacles) :
                       obstacles[i].lane = l /\ obstacles[i].y > -350
    IN  retain(<<0, 1, 2>>, free)

swap(seq, i, j) ==
    [k \in 1..Len(seq) |-> IF k = i THEN seq[j] ELSE IF k = j THEN seq[i] ELSE seq[k]]

\* for i in (1..available.len()).rev() { available.swap(i, rng.next_usize(i + 1)) }
RECURSIVE shuffle(_, _, _)
shuffle(rng, available, i) ==
    IF i < 1 THEN [rng |-> rng, available |-> available]
    ELSE LET j == Rng_next_usize(rng, i + 1)
         IN  shuffle(j.rng, swap(available, i + 1, j.value + 1), i - 1)

\* Mutant: as many obstacles are spawned as were drawn.
num_spawn_uncapped(two, available) == IF two THEN 2 ELSE 1

\* (if rng.next_f32() > 0.6 { 2 } else { 1 }).min(available.len() - 1)
num_spawn(two, available) ==
    LET drawn == IF two THEN 2 ELSE 1
    IN  IF drawn < Len(available) - 1 THEN drawn ELSE Len(available) - 1

\* The obstacles spawned in a tick.
spawn_obstacles(rng, obstacles, speed) ==
    LET roll == Rng_next_u64(rng)
    IN  IF ~(U64_rem(roll.value, 1000) < spawn_prob(speed))
        THEN [rng |-> roll.rng, obstacles |-> obstacles]
        ELSE LET available == available_lanes(obstacles)
             IN  IF ~(Len(available) >= 2)
                 THEN [rng |-> roll.rng, obstacles |-> obstacles]
                 ELSE LET shuffled == shuffle(roll.rng, available, Len(available) - 1)
                          two      == Rng_next_f32_above_0_6(shuffled.rng)
                          n        == num_spawn(two.value, shuffled.available)
                      IN  [rng |-> two.rng,
                           obstacles |->
                               obstacles \o
                               [k \in 1..n |-> Obstacle(shuffled.available[k], -50, FALSE)]]

\* The gem spawned in a tick.
spawn_gems(rng, obstacles, gems) ==
    LET roll == Rng_next_u64(rng)
    IN  IF ~(U64_rem(roll.value, 1000) < 8)
        THEN [rng |-> roll.rng, gems |-> gems]
        ELSE LET lane == Rng_next_usize(roll.rng, LANES)
                 has_nearby == \E i \in 1..Len(obstacles) :
                                   /\ obstacles[i].lane = lane.value
                                   /\ obstacles[i].y > -200
                                   /\ obstacles[i].y < 100
             IN  [rng |-> lane.rng,
                  gems |-> IF has_nearby THEN gems
                           ELSE Append(gems, Gem(lane.value, -50, FALSE))]

\* The locals of simulate_game before the loop.
simulate_game_start(input) ==
    [ pc |-> "loop", input |-> input, processed |-> 0,
      rng |-> Rng_new(input.seed), player_lane |-> 1, score |-> 0,
      obstacles_dodged |-> 0, gems_collected |-> 0, speed |-> BASE_SPEED_SCALE,
      obstacles |-> <<>>, gems |-> <<>>, collision |-> FALSE ]

\* An iteration up to the break: the player moves, then the obstacles.
until_break(g, action) ==
    LET lane == move_player(g.player_lane, action)
        acc  == move_obstacles(
                    [obstacles |-> <<>>, collision |-> g.collision,
                     obstacles_dodged |-> g.obstacles_dodged,
                     score |-> g.score, speed |-> g.speed],
                    g.obstacles, 1, lane, effective_speed(g.speed))
    IN  [g EXCEPT !.processed = @ + 1, !.player_lane = lane,
                  !.obstacles = acc.obstacles, !.collision = acc.collision,
                  !.obstacles_dodged = acc.obstacles_dodged,
                  !.score = acc.score, !.speed = acc.speed]

\* An iteration after the break: the gems move, what left the screen is
\* dropped, obstacles and gems are spawned.  step is the effective speed
\* computed at the top of the iteration.
after_break(g, step) ==
    LET acc == move_gems([gems |-> <<>>, gems_collected |-> g.gems_collected,
                          score |-> g.score],
                         g.gems, 1, g.player_lane, step)
        on_screen(o) == o.y <= canvas_height + 50
        live(m) == ~m.collected /\ m.y <= canvas_height + 50
        obstacles == retain(g.obstacles, on_screen)
        gems == retain(acc.gems, live)
        so == spawn_obstacles(g.rng, obstacles, g.speed)
        sg == spawn_gems(so.rng, so.obstacles, gems)
    IN  [g EXCEPT !.gems_collected = acc.gems_collected, !.score = acc.score,
                  !.obstacles = so.obstacles, !.gems = sg.gems, !.rng = sg.rng]

\* Mutant: the loop goes on after a collision.
loop_iteration_no_break(g, action) ==
    after_break(until_break(g, action), effective_speed(g.speed))

\* One iteration of for action in &input.actions
loop_iteration(g, action) ==
    LET s == until_break(g, action)
    IN  IF s.collision THEN s ELSE after_break(s, effective_speed(g.speed))

\* GameResult { .. }
GameResult(g) ==
    [ player_address |-> g.input.player_address, game_id |-> g.input.game_id,
      score |-> g.score, obstacles_dodged |-> g.obstacles_dodged,
      gems_collected |-> g.gems_collected, speed_reached |-> g.speed,
      collision_occurred |-> g.collision ]

NoGameResult ==
    [ player_address |-> "", game_id |-> 0, score |-> 0, obstacles_dodged |-> 0,
      gems_collected |-> 0, speed_reached |-> 0, collision_occurred |-> FALSE ]

\* main has read the input and entered simulate_game.  The actions of the
\* input are drawn as the loop reaches them, and so is their number.
InitGuest ==
    /\ owner = "admin"
    /\ storage = [k \in {} |-> None]
    /\ vstore = [v \in Verifiers |-> RiscZeroMockVerifier_new(TestSelector)]
    /\ txs = NoTxs
    /\ game = NoGame
    /\ ttl = NoTtl
    /\ \E seed \in Seeds, player_address \in PlayerAddresses, game_id \in GameIds :
          guest = simulate_game_start([seed |-> U64(seed),
                                       player_address |-> player_address,
                                       game_id |-> game_id])
    /\ last = [op |-> "read", action |-> 0, journal |-> NoGameResult]

\* The loop takes the next action of the input.
Tick(action) ==
    /\ guest.pc = "loop"
    /\ ~guest.collision
    /\ guest.processed < MaxTicks
    /\ guest' = loop_iteration(guest, action)
    /\ last' = [op |-> "tick", action |-> action, journal |-> NoGameResult]
    /\ UNCHANGED <<owner, storage, vstore, txs, game, ttl>>

\* The loop is left, by the break or at the end of the input; simulate_game
\* returns and main commits the result to the journal.
Commit ==
    /\ guest.pc = "loop"
    /\ guest' = [guest EXCEPT !.pc = "committed"]
    /\ last' = [op |-> "commit", action |-> 0, journal |-> GameResult(guest)]
    /\ UNCHANGED <<owner, storage, vstore, txs, game, ttl>>

NextGuest ==
    \/ \E action \in ActionBytes : Tick(action)
    \/ Commit

SpecGuest == InitGuest /\ [][NextGuest]_vars

----------------------------------------------------------------------------
(* The router on a ledger whose sequence advances: each registry entry has *)
(* a number of ledgers left to live.  The host keeps what an invocation    *)
(* did to the ledger, lease extensions included, when it returns Ok, and   *)
(* discards it when it fails.  A second run of the same invocations, whose *)
(* entries are created with other leases, is followed alongside.           *)

DAY_IN_LEDGERS == 17280
VERIFIER_EXTEND_AMOUNT == 90 * DAY_IN_LEDGERS
VERIFIER_TTL_THRESHOLD == VERIFIER_EXTEND_AMOUNT - DAY_IN_LEDGERS

\* Advances of the ledger sequence explored.
MaxAdvances == 2

\* The ledgers closed by one advance: just over a day's worth, most of the lease.
LedgerSteps == {DAY_IN_LEDGERS + 1, 88 * DAY_IN_LEDGERS}
\* The lease the network gives an entry when it is created: a setting of the
\* network, here short of the threshold or beyond the extension.
InitialTtls == {2 * DAY_IN_LEDGERS, 91 * DAY_IN_LEDGERS}

\* The selector the owner registers and removes, and one never registered.
TtlSelector == SelOf(0)
TtlSelectors == {TtlSelector, SelOf(1)}

\* The invocations sent to the router: the owner's, the getters, and the
\* routed calls on a seal the verifier accepts and on one it rejects.
TtlCalls ==
    { [op |-> "add_verifier", sel |-> TtlSelector, addr |-> "vA", seal |-> NoBytes,
       claim_digest |-> NoBytes],
      [op |-> "remove_verifier", sel |-> TtlSelector, addr |-> NoAddr, seal |-> NoBytes,
       claim_digest |-> NoBytes] }
    \cup UNION {
      { [op |-> "verifiers", sel |-> sel, addr |-> NoAddr, seal |-> NoBytes,
         claim_digest |-> NoBytes],
        [op |-> "get_verifier_by_selector", sel |-> sel, addr |-> NoAddr,
         seal |-> NoBytes, claim_digest |-> NoBytes],
        [op |-> "get_verifier_from_seal", sel |-> NoSel, addr |-> NoAddr,
         seal |-> sel \o <<1>>, claim_digest |-> NoBytes],
        [op |-> "verify", sel |-> NoSel, addr |-> NoAddr,
         seal |-> sel \o ReceiptClaim_digest(ReceiptClaim_new(<<0>>, <<1>>)),
         claim_digest |-> NoBytes],
        [op |-> "verify_integrity", sel |-> NoSel, addr |-> NoAddr,
         seal |-> sel \o <<1>>, claim_digest |-> <<1>>],
        [op |-> "verify_integrity", sel |-> NoSel, addr |-> NoAddr,
         seal |-> sel \o <<1>>, claim_digest |-> <<0>>] } : sel \in TtlSelectors }

\* Mutant: an entry whose lease is below the threshold is no longer found.
LiveStore_leased(store, remaining) ==
    [k \in {k \in DOMAIN store : remaining[k] >= VERIFIER_TTL_THRESHOLD} |-> store[k]]

\* What env.storage().persistent() holds for the contract: the entries that
\* have ledgers left to live.
LiveStore(store, remaining) ==
    [k \in {k \in DOMAIN store : remaining[k] > 0} |-> store[k]]

\* persistent().extend_ttl(key, threshold, extend_to) on the ledgers an entry
\* has left: below the threshold they become extend_to.
extend_ttl(remaining, threshold, extend_to) ==
    IF remaining < threshold THEN extend_to ELSE remaining

\* An invocation of the router run on a store and on the verifiers.
RouterCall(own, store, vs, inv) ==
    CASE inv.op = "add_verifier" ->
           LET t == add_verifier(own, store, "admin", inv.sel, inv.addr)
           IN  [store |-> t.store, vs |-> vs, result |-> t.result, reads |-> t.reads,
                ext |-> {}, seen |-> t.seen, calls |-> <<>>]
      [] inv.op = "remove_verifier" ->
           LET t == remove_verifier(own, store, "admin", inv.sel)
           IN  [store |-> t.store, vs |-> vs, result |-> t.result, reads |-> t.reads,
                ext |-> {}, seen |-> t.seen, calls |-> <<>>]
      [] inv.op = "verifiers" ->
           LET t == verifiers(store, inv.sel)
           IN  [store |-> store, vs |-> vs, result |-> t.result, reads |-> t.reads,
                ext |-> t.ext, seen |-> t.seen, calls |-> <<>>]
      [] inv.op = "get_verifier_by_selector" ->
           LET t == get_verifier_by_selector(store, inv.sel)
           IN  [store |-> store, vs |-> vs, result |-> t.result, reads |-> t.reads,
                ext |-> t.ext, seen |-> t.seen, calls |-> <<>>]
      [] inv.op = "get_verifier_from_seal" ->
           LET t == get_verifier_from_seal(store, inv.seal)
           IN  [store |-> store, vs |-> vs, result |-> t.result, reads |-> t.reads,
                ext |-> t.ext, seen |-> t.seen, calls |-> <<>>]
      [] inv.op = "verify" ->
           LET t == verify(store, vs, inv.seal, <<0>>, <<1>>)
           IN  [store |-> store, vs |-> t.vs, result |-> t.result, reads |-> t.reads,
                ext |-> t.ext, seen |-> t.seen, calls |-> t.calls]
      [] inv.op = "verify_integrity" ->
           LET t == verify_integrity(store, vs, Receipt(inv.seal, inv.claim_digest))
           IN  [store |-> store, vs |-> t.vs, result |-> t.result, reads |-> t.reads,
                ext |-> t.ext, seen |-> t.seen, calls |-> t.calls]

\* The leases after an invocation: a created entry gets the network's lease;
\* the entries extend_ttl was called on are extended when the invocation
\* returned Ok; every other lease is as it was.
Lease(remaining, store, t, initial) ==
    [k \in DOMAIN t.store |->
        IF k \notin DOMAIN store THEN initial
        ELSE IF k \in t.ext /\ t.result.status = "Ok"
             THEN extend_ttl(remaining[k], VERIFIER_TTL_THRESHOLD, VERIFIER_EXTEND_AMOUNT)
        ELSE remaining[k]]

InitTtl ==
    /\ RouterInit
    /\ vstore = [v \in Verifiers |->
                    RiscZeroMockVerifier_new(IF v = "vA" THEN SelOf(0) ELSE SelOf(1))]
    /\ txs = NoTxs
    /\ game = NoGame
    /\ ttl = [NoTtl EXCEPT !.twin_result = Ok]
    /\ guest = NoGuest

\* The host runs an invocation of the router in both runs.
Invoke_on_ledger(inv, initial, twin_initial) ==
    LET t == RouterCall(owner, LiveStore(storage, ttl.remaining), vstore, inv)
        u == RouterCall(owner, LiveStore(storage, ttl.twin), vstore, inv)
    IN  /\ storage' = t.store
        /\ vstore' = t.vs
        /\ last' = Invocation(inv.op, "admin", inv.sel, inv.addr, inv.seal,
                              NoBytes, NoBytes, inv.claim_digest, t)
        /\ ttl' = [ remaining   |-> Lease(ttl.remaining, storage, t, initial),
                    twin        |-> Lease(ttl.twin, storage, u, twin_initial),
                    advances    |-> ttl.advances,
                    twin_result |-> u.result,
                    twin_store  |-> u.store ]
        /\ UNCHANGED <<owner, txs, game, guest>>

\* The ledger closes step ledgers; no entry is let run out of ledgers.
AdvanceLedger(step) ==
    /\ ttl.advances < MaxAdvances
    /\ \A k \in DOMAIN storage : ttl.remaining[k] > step /\ ttl.twin[k] > step
    /\ ttl' = [ttl EXCEPT !.remaining = [k \in DOMAIN storage |-> ttl.remaining[k] - step],
                          !.twin = [k \in DOMAIN storage |-> ttl.twin[k] - step],
                          !.advances = @ + 1]
    /\ last' = Invocation("ledger", "admin", NoSel, NoAddr, NoBytes, NoBytes,
                          NoBytes, NoBytes, NoTrace)
    /\ UNCHANGED <<owner, storage, vstore, txs, game, guest>>

NextTtl ==
    \/ \E inv \in TtlCalls, initial \in InitialTtls, twin_initial \in InitialTtls :
           Invoke_on_ledger(inv, initial, twin_initial)
    \/ \E step \in LedgerSteps : AdvanceLedger(step)

SpecTtl == InitTtl /\ [][NextTtl]_vars

----------------------------------------------------------------------------
(* Properties of the router                                                *)

\* The stored entry of a selector.
Entry(sel) == Get(storage, sel)

\* The first four bytes of a seal that has them.
Prefix4(seal) == <<seal[1], seal[2], seal[3], seal[4]>>

ByOwner == last.signer = owner
IsLookup == last.op \in {"get_verifier_by_selector", "get_verifier_from_seal"}
IsRouted == last.op \in {"verify", "verify_integrity"}

\* The selector a lookup names, directly or through its seal.
LookupSelector ==
    IF last.op = "get_verifier_by_selector" THEN last.sel
    ELSE IF Len(last.seal) >= 4 THEN Prefix4(last.seal) ELSE NoSel

\* C1: the entry of every selector only moves Unset -> Active(a) -> Tombstone
\* (never out of Tombstone, never Active(a) -> Active(b), never back to Unset),
\* a successful lookup returns the address of the Active entry, and once a
\* lookup of a selector has returned an address every later successful lookup
\* of that selector returns the same one.
C1_EntryLifecycle ==
    /\ [][\A sel \in QuerySelectors :
            /\ Entry(sel).tag = "None" => Entry(sel)'.tag \in {"None", "Active"}
            /\ Entry(sel).tag = "Active" => Entry(sel)' \in {Entry(sel), Tombstone}
            /\ Entry(sel).tag = "Tombstone" => Entry(sel)' = Tombstone]_vars
    /\ [](IsLookup /\ last.result.status = "Ok"
            => Entry(LookupSelector) = Active(last.result.addr))
    /\ \A sel \in AdminSelectors, a \in Verifiers :
          [](IsLookup /\ LookupSelector = sel /\ last.result = OkAddr(a)
               => [](IsLookup /\ LookupSelector = sel /\ last.result.status = "Ok"
                       => last.result.addr = a))

\* C1 witness: a selector that was bound and removed refused a new binding
\* while another selector still routes.
C1_Witness ==
    /\ last.op = "add_verifier" /\ ByOwner
    /\ Entry(last.sel) = Tombstone
    /\ \E sel \in AdminSelectors : Entry(sel).tag = "Active"

\* C2: a successful remove_verifier leaves a Tombstone, and from a Tombstone
\* on the entry stays Tombstone, the owner's add_verifier fails with
\* SelectorRemoved for every address, get_verifier_by_selector fails with
\* SelectorRemoved and verifiers returns Some(Tombstone).
C2_TombstonePermanence ==
    /\ [](last.op = "remove_verifier" /\ last.result.status = "Ok"
            => Entry(last.sel) = Tombstone)
    /\ [][\A sel \in QuerySelectors : Entry(sel) = Tombstone =>
            /\ Entry(sel)' = Tombstone
            /\ (last'.op = "add_verifier" /\ last'.sel = sel /\ last'.signer = owner
                  => last'.result = Err("SelectorRemoved"))
            /\ (last'.op = "get_verifier_by_selector" /\ last'.sel = sel
                  => last'.result = Err("SelectorRemoved"))
            /\ (last'.op = "verifiers" /\ last'.sel = sel
                  => last'.result = OkEntry(Tombstone))]_vars

\* C2 witness: add_verifier on a removed selector was refused.
C2_Witness ==
    /\ last.op = "add_verifier"
    /\ last.result = Err("SelectorRemoved")
    /\ Entry(last.sel) = Tombstone

\* C3: add_verifier(sel, addr) by the owner on an unset selector returns Ok
\* and stores Active(addr); get_verifier_by_selector(sel) right after it
\* returns addr.
C3_AddOnUnset ==
    /\ [][last'.op = "add_verifier" /\ last'.signer = owner
            /\ Entry(last'.sel) = None
            => /\ last'.result = Ok
               /\ Get(storage', last'.sel) = Active(last'.addr)]_vars
    /\ [][last.op = "add_verifier" /\ last.result = Ok
            /\ last'.op = "get_verifier_by_selector" /\ last'.sel = last.sel
            => last'.result = OkAddr(last.addr)]_vars

\* C3 witness: the owner's add_verifier on an unset selector has returned Ok.
C3_Witness ==
    /\ last.op = "add_verifier" /\ ByOwner
    /\ last.result = Ok
    /\ Entry(last.sel) = Active(last.addr)

\* C4: add_verifier(sel, b) by the owner on an entry Active(a) fails with
\* SelectorInUse and leaves the registry as it was, for b = a as well.
C4_AddOnActive ==
    [][last'.op = "add_verifier" /\ last'.signer = owner
         /\ Entry(last'.sel).tag = "Active"
         => /\ last'.result = Err("SelectorInUse")
            /\ storage' = storage]_vars

\* C4 witness: the address already bound was offered again and refused.
C4_Witness ==
    /\ last.op = "add_verifier"
    /\ last.result = Err("SelectorInUse")
    /\ Entry(last.sel) = Active(last.addr)

\* C5: remove_verifier(sel) by the owner on a selector that is unset fails
\* with SelectorUnknown and writes nothing (verifiers(sel) stays None), and
\* the owner's add_verifier(sel, a) after it succeeds.
C5_RemoveOnUnset ==
    /\ [][last'.op = "remove_verifier" /\ last'.signer = owner
            /\ Entry(last'.sel) = None
            => /\ last'.result = Err("SelectorUnknown")
               /\ storage' = storage
               /\ Get(storage', last'.sel) = None]_vars
    /\ [][last.op = "remove_verifier" /\ last.result = Err("SelectorUnknown")
            /\ last'.op = "verifiers" /\ last'.sel = last.sel
            => last'.result = OkEntry(None)]_vars
    /\ [][last.op = "remove_verifier" /\ last.result = Err("SelectorUnknown")
            /\ last'.op = "add_verifier" /\ last'.sel = last.sel
            /\ last'.signer = owner
            => /\ last'.result = Ok
               /\ Get(storage', last'.sel) = Active(last'.addr)]_vars

\* C5 witness: a removal of an unset selector was refused while another
\* selector is registered.
C5_Witness ==
    /\ last.op = "remove_verifier"
    /\ last.result = Err("SelectorUnknown")
    /\ Entry(last.sel) = None
    /\ \E sel \in AdminSelectors : Entry(sel).tag = "Active"

\* What an owner operation found, returned and left behind.
OwnerOp(op, found, result, left) ==
    /\ last.op = op /\ ByOwner /\ last.seen = found
    => /\ last.result = result
       /\ Entry(last.sel) = left

\* C6 as stated: the owner operations admit, from Unset, add -> Active and
\* remove -> error; from Active, add -> error SelectorInUse and remove ->
\* Tombstone; from Tombstone, add -> error SelectorRemoved and nothing else,
\* so remove_verifier on a Tombstone is no successful transition.
C6_AsStated ==
    /\ OwnerOp("add_verifier", None, Ok, Active(last.addr))
    /\ OwnerOp("remove_verifier", None, Err("SelectorUnknown"), None)
    /\ OwnerOp("add_verifier", Active(last.seen.addr), Err("SelectorInUse"), last.seen)
    /\ OwnerOp("remove_verifier", Active(last.seen.addr), Ok, Tombstone)
    /\ OwnerOp("add_verifier", Tombstone, Err("SelectorRemoved"), Tombstone)
    /\ (last.op = "remove_verifier" /\ ByOwner /\ last.seen = Tombstone
          => last.result.status # "Ok")

\* C6 amended: as above, except that from Tombstone remove_verifier returns
\* Ok and leaves the entry Tombstone.
C6_OwnerTransitions ==
    /\ OwnerOp("add_verifier", None, Ok, Active(last.addr))
    /\ OwnerOp("remove_verifier", None, Err("SelectorUnknown"), None)
    /\ OwnerOp("add_verifier", Active(last.seen.addr), Err("SelectorInUse"), last.seen)
    /\ OwnerOp("remove_verifier", Active(last.seen.addr), Ok, Tombstone)
    /\ OwnerOp("add_verifier", Tombstone, Err("SelectorRemoved"), Tombstone)
    /\ OwnerOp("remove_verifier", Tombstone, Ok, Tombstone)

\* C6 witness: the owner removed a selector that was already a Tombstone.
C6_Witness ==
    /\ last.op = "remove_verifier" /\ ByOwner
    /\ last.seen = Tombstone
    /\ last.result = Ok
    /\ Entry(last.sel) = Tombstone

\* C7: verifiers(sel) never fails and returns the stored entry as it is:
\* None for an unset selector, Some(Active(a)) right after add_verifier(sel, a),
\* Some(Tombstone) right after a successful remove_verifier(sel).
C7_VerifiersRawEntry ==
    /\ [](last.op = "verifiers"
            => /\ last.result.status = "Ok"
               /\ last.result.entry = Entry(last.sel)
               /\ last.result.entry \in {None, Tombstone} \cup {Active(a) : a \in Verifiers})
    /\ [][last'.op = "verifiers" /\ last'.sel = last.sel
            => /\ (last.op = "add_verifier" /\ last.result = Ok
                     => last'.result = OkEntry(Active(last.addr)))
               /\ (last.op = "remove_verifier" /\ last.result = Ok
                     => last'.result = OkEntry(Tombstone))]_vars
    /\ [](last.op = "verifiers" /\ last.sel = StraySelector => last.result = OkEntry(None))

\* C7 witness: the raw getter returned Some(Tombstone).
C7_Witness ==
    /\ last.op = "verifiers"
    /\ last.result = OkEntry(Tombstone)

\* C8: get_verifier_by_selector(sel) returns a iff the entry is Active(a),
\* fails with SelectorUnknown iff it is unset and with SelectorRemoved iff it
\* is Tombstone; get_verifier_from_seal(seal) on a seal of at least 4 bytes
\* gives what get_verifier_by_selector gives for its first 4 bytes, whatever
\* follows them.
C8_Lookup ==
    /\ IsLookup /\ (last.op = "get_verifier_from_seal" => Len(last.seal) >= 4)
       => LET entry == Entry(LookupSelector)
          IN  /\ \A a \in Verifiers : last.result = OkAddr(a) <=> entry = Active(a)
              /\ last.result.status = "Ok" <=> entry.tag = "Active"
              /\ last.result = Err("SelectorUnknown") <=> entry = None
              /\ last.result = Err("SelectorRemoved") <=> entry = Tombstone
    /\ last.op = "get_verifier_from_seal" /\ Len(last.seal) >= 4
       => last.result = get_verifier_by_selector(storage, Prefix4(last.seal)).result

\* C8 witness: a seal whose bytes after the prefix differ from the prefix's
\* last byte was resolved to the verifier of its prefix.
C8_Witness ==
    /\ last.op = "get_verifier_from_seal"
    /\ Len(last.seal) > 4
    /\ last.seal[5] # last.seal[4]
    /\ last.result.status = "Ok"

\* C9: on a seal shorter than 4 bytes verify, verify_integrity and
\* get_verifier_from_seal fail with MalformedSeal having read no registry
\* entry, extended no TTL and called no verifier, whatever the registry holds.
C9_ShortSeal ==
    last.op \in {"verify", "verify_integrity", "get_verifier_from_seal"}
      /\ Len(last.seal) < 4
    => /\ last.result = Err("MalformedSeal")
       /\ last.reads = {}
       /\ last.ext = {}
       /\ last.calls = <<>>

\* C9 witness: a 3-byte seal that is the start of a registered selector was
\* rejected by verify.
C9_Witness ==
    /\ last.op = "verify"
    /\ Len(last.seal) = 3
    /\ \E sel \in AdminSelectors :
          /\ Entry(sel).tag = "Active"
          /\ SubSeq(sel, 1, 3) = last.seal
    /\ last.result = Err("MalformedSeal")

\* C10: a routed verify / verify_integrity whose selector is Active(a) calls
\* exactly one verifier, a, with the seal (and image id and journal, or
\* claim digest) it was given; the state of every other verifier is left as
\* it was, and after a successful call a holds the receipt with that seal.
C10_Dispatch ==
    [][last'.op \in {"verify", "verify_integrity"}
         /\ Len(last'.seal) >= 4
         /\ Entry(Prefix4(last'.seal)).tag = "Active"
         => LET a == Entry(Prefix4(last'.seal)).addr
            IN  /\ Len(last'.calls) = 1
                /\ last'.calls[1] =
                      Call(a, last'.op, last'.seal, last'.image_id, last'.journal,
                           last'.claim_digest)
                /\ \A b \in Verifiers \ {a} : vstore'[b] = vstore[b]
                /\ last'.result.status = "Ok"
                     => /\ was_called(vstore'[a])
                        /\ get_verified_receipt(vstore'[a]).seal = last'.seal
                        /\ last'.op = "verify_integrity"
                             => get_verified_receipt(vstore'[a]) =
                                   Receipt(last'.seal, last'.claim_digest)]_vars

\* C10 witness: two selectors route to two verifiers, a seal was verified
\* through the router, and only the verifier of its selector was called.
C10_Witness ==
    /\ IsRouted /\ last.result = Ok
    /\ \E s1, s2 \in AdminSelectors :
          /\ Entry(s1).tag = "Active" /\ Entry(s2).tag = "Active"
          /\ Entry(s1).addr # Entry(s2).addr
          /\ Prefix4(last.seal) = s1
          /\ was_called(vstore[Entry(s1).addr])
          /\ get_verified_receipt(vstore[Entry(s1).addr]).seal = last.seal
          /\ ~was_called(vstore[Entry(s2).addr])

\* The verifier's own answer to the call a routed invocation carries.
Downstream(inv, st) ==
    IF inv.op = "verify"
    THEN Verifier_verify(st, inv.seal, inv.image_id, inv.journal).result
    ELSE Verifier_verify_integrity(st, Receipt(inv.seal, inv.claim_digest)).result

\* The receipt a routed invocation hands to the verifier.
RoutedReceipt(inv) ==
    IF inv.op = "verify"
    THEN Receipt(inv.seal, ReceiptClaim_digest(ReceiptClaim_new(inv.image_id, inv.journal)))
    ELSE Receipt(inv.seal, inv.claim_digest)

\* C11: a routed verify / verify_integrity reads the registry entry of the
\* seal's selector before it calls anything: on a Tombstone it fails with
\* SelectorRemoved and on an unset selector with SelectorUnknown, in both cases
\* calling no verifier and leaving every verifier's state as it was; a seal of
\* another, Active selector is still dispatched to its verifier and accepted.
C11_LookupBeforeDispatch ==
    [][last'.op \in {"verify", "verify_integrity"} /\ Len(last'.seal) >= 4
         => LET sel == Prefix4(last'.seal)
                e   == Entry(sel)
            IN  /\ last'.reads = {sel}
                /\ last'.seen = e
                /\ e = Tombstone
                     => /\ last'.result = Err("SelectorRemoved")
                        /\ last'.calls = <<>>
                        /\ vstore' = vstore
                /\ e = None
                     => /\ last'.result = Err("SelectorUnknown")
                        /\ last'.calls = <<>>
                        /\ vstore' = vstore
                /\ e.tag = "Active"
                     => /\ Len(last'.calls) = 1
                        /\ last'.calls[1].to = e.addr
                        /\ ~vstore[e.addr].should_fail
                             => /\ last'.result = Ok
                                /\ was_called(vstore'[e.addr])]_vars

\* C11 witness: a seal of a removed selector was refused, no verifier has ever
\* been called, and another selector is still registered.
C11_Witness ==
    /\ IsRouted
    /\ last.result = Err("SelectorRemoved")
    /\ last.seen = Tombstone
    /\ last.calls = <<>>
    /\ \A v \in Verifiers : ~was_called(vstore[v])
    /\ \E sel \in AdminSelectors : Entry(sel).tag = "Active"

\* C12: a routed verify / verify_integrity whose selector is Active(a) returns
\* what a's verify / verify_integrity returns: Ok exactly when a returns Ok,
\* and otherwise a's error, never another one and never a trap.
C12_ErrorsPropagate ==
    [][last'.op \in {"verify", "verify_integrity"} /\ Len(last'.seal) >= 4
         /\ Entry(Prefix4(last'.seal)).tag = "Active"
         => LET a    == Entry(Prefix4(last'.seal)).addr
                down == Downstream(last', vstore[a])
            IN  /\ last'.result.status \in {"Ok", "Err"}
                /\ last'.result.status = "Ok" <=> down.status = "Ok"
                /\ last'.result.err = down.err]_vars

\* C12 witness: the verifier behind the selector rejected the seal with
\* InvalidSelector and the router returned InvalidSelector.
C12_Witness ==
    /\ IsRouted
    /\ last.seen.tag = "Active"
    /\ Len(last.calls) = 1
    /\ last.result = Err("InvalidSelector")

\* C13: a routed call that fails inside the target verifier leaves the state
\* of every verifier, the target's included, as it was before the call (the
\* called flag and the receipt it wrote are rolled back); a routed call that
\* succeeds leaves the target with called set and the receipt stored.
C13_SubInvocationAtomic ==
    [][last'.op \in {"verify", "verify_integrity"} /\ Len(last'.calls) = 1
         => LET a == last'.calls[1].to
            IN  /\ last'.result.status # "Ok" => vstore' = vstore
                /\ last'.result.status = "Ok"
                     => /\ was_called(vstore'[a])
                        /\ get_verified_receipt(vstore'[a]) = RoutedReceipt(last')
                        /\ vstore'[a].should_fail = vstore[a].should_fail]_vars

\* C13 witness: the verifier a seal was routed to failed with InvalidProof,
\* and it shows neither the call nor a receipt.
C13_Witness ==
    /\ IsRouted
    /\ Len(last.calls) = 1
    /\ last.result = Err("InvalidProof")
    /\ vstore[last.calls[1].to].should_fail
    /\ ~was_called(vstore[last.calls[1].to])
    /\ get_verified_receipt(vstore[last.calls[1].to]) = NoReceipt

Adds == {i \in DOMAIN txs : txs[i].op = "add_verifier"}
Removes == {i \in DOMAIN txs : txs[i].op = "remove_verifier"}
AppliedAdds == {i \in Adds : txs[i].status = "applied"}
Winners == {i \in AppliedAdds : txs[i].result = Ok}

\* A remove_verifier was applied after transaction w and before transaction l.
RemovedBetween(w, l) ==
    \E r \in Removes :
        /\ txs[r].status = "applied" /\ txs[r].result = Ok
        /\ txs[w].at < txs[r].at /\ txs[r].at < txs[l].at

\* C15: of the concurrent add_verifier transactions on one unset selector the
\* ledger applies, in every order, exactly one succeeds: the first. The
\* entry is then Active with the winner's address until a remove_verifier
\* applied later makes it a Tombstone; every other add_verifier finds the
\* entry Active with the winner's address and fails with SelectorInUse, or
\* finds it Tombstone, a remove_verifier having been applied in between, and
\* fails with SelectorRemoved; none replaces the winner's address.
C15_ConcurrentAdds ==
    /\ AppliedAdds # {} => Cardinality(Winners) = 1
    /\ \A w \in Winners :
          /\ txs[w].seen = None
          /\ \A l \in AppliedAdds \ {w} :
                /\ txs[w].at < txs[l].at
                /\ txs[l].result.status = "Err"
                /\ \/ /\ txs[l].seen = Active(txs[w].addr)
                      /\ txs[l].result = Err("SelectorInUse")
                      /\ ~RemovedBetween(w, l)
                   \/ /\ txs[l].seen = Tombstone
                      /\ txs[l].result = Err("SelectorRemoved")
                      /\ RemovedBetween(w, l)
          /\ Entry(txs[w].sel) \in {Active(txs[w].addr), Tombstone}
          /\ Entry(txs[w].sel) = Tombstone
               <=> \E r \in Removes : /\ txs[r].status = "applied"
                                       /\ txs[r].at > txs[w].at

\* C15 witness: every transaction was applied; one add_verifier won, a
\* remove_verifier came next, and the add_verifier for another address, applied
\* last, failed with SelectorRemoved.
C15_Witness ==
    /\ \A i \in DOMAIN txs : txs[i].status = "applied"
    /\ \E w \in Winners, l \in AppliedAdds :
          /\ txs[l].addr # txs[w].addr
          /\ txs[l].result = Err("SelectorRemoved")
          /\ RemovedBetween(w, l)
          /\ txs[l].at = Applied

----------------------------------------------------------------------------
(* Properties of the development verifier                                  *)

\* The selector the invoked verifier was constructed with.
Configured == vstore[last.to].selector

\* The bytes of a seal after its selector.
Body(seal) == SubSeq(seal, 5, Len(seal))

\* The claim digest a verify / verify_integrity invocation is checked against.
CheckedDigest(inv) ==
    IF inv.op = "verify"
    THEN ReceiptClaim_digest(ReceiptClaim_new(inv.image_id, inv.journal))
    ELSE inv.claim_digest

IsCheck == last.op \in {"verify", "verify_integrity"}

\* C16: mock_prove(image_id, journal_digest) returns a receipt whose
\* claim_digest is the digest of ReceiptClaim::new(image_id, journal_digest);
\* verify_integrity of that receipt on the same verifier returns Ok, and so
\* does verify of its seal with the same image_id and journal_digest.
C16_MockRoundTrip ==
    /\ [](last.op = "mock_prove"
            => /\ last.result = Ok
               /\ last.receipt.claim_digest =
                     ReceiptClaim_digest(ReceiptClaim_new(last.image_id, last.journal)))
    /\ [][last.op = "mock_prove" /\ last'.to = last.to
            /\ last'.op = "verify_integrity"
            /\ Receipt(last'.seal, last'.claim_digest) = last.receipt
            => last'.result = Ok]_vars
    /\ [][last.op = "mock_prove" /\ last'.to = last.to
            /\ last'.op = "verify"
            /\ last'.seal = last.receipt.seal
            /\ last'.image_id = last.image_id /\ last'.journal = last.journal
            => last'.result = Ok]_vars

\* C16 witness: verify accepted a seal that carries the digest of the claim
\* over its image id and journal.
C16_Witness ==
    /\ last.op = "verify"
    /\ last.result = Ok
    /\ last.seal = Configured \o CheckedDigest(last)

\* C17: mock_prove_claim(d) on a 32-byte digest d returns a receipt whose
\* claim_digest is d and whose seal is the 36 bytes selector || d, selector
\* being the 4 bytes the verifier was constructed with.
C17_MockProveClaim ==
    last.op = "mock_prove_claim" /\ Len(last.claim_digest) = 32
    => /\ last.result = Ok
       /\ last.receipt.claim_digest = last.claim_digest
       /\ Len(last.receipt.seal) = 36
       /\ SubSeq(last.receipt.seal, 1, 4) = Configured
       /\ SubSeq(last.receipt.seal, 5, 36) = last.claim_digest
       /\ Len(Configured) = 4

\* C17 witness: a receipt was built for the digest AB x 32 by the verifier
\* with the selector 11 22 33 44.
C17_Witness ==
    /\ last.op = "mock_prove_claim"
    /\ last.claim_digest = Fill(171)
    /\ Configured = TestSelector
    /\ last.receipt.seal = TestSelector \o Fill(171)

\* C18: on a seal whose first 4 bytes are the configured selector,
\* verify_integrity returns Ok exactly when the rest of the seal equals the
\* claim digest and fails with InvalidProof otherwise; the seal that
\* mock_prove_claim built for d, presented with another digest, fails with
\* InvalidProof.
C18_DigestBinding ==
    /\ [](last.op = "verify_integrity" /\ Len(last.seal) >= 4
            /\ Prefix4(last.seal) = Configured
            => /\ last.result = Ok <=> Body(last.seal) = last.claim_digest
               /\ last.result # Ok => last.result = Err("InvalidProof"))
    /\ [][last.op = "mock_prove_claim" /\ last'.to = last.to
            /\ last'.op = "verify_integrity"
            /\ last'.seal = last.receipt.seal
            /\ last'.claim_digest # last.claim_digest
            => last'.result = Err("InvalidProof")]_vars

\* C18 witness: a seal for AB x 32 was presented with the digest BB x 32 and
\* rejected with InvalidProof.
C18_Witness ==
    /\ last.op = "verify_integrity"
    /\ last.seal = Configured \o Fill(171)
    /\ last.claim_digest = Fill(187)
    /\ last.result = Err("InvalidProof")

\* C19: verify_integrity (and verify through it) reports the first failing
\* check of three: a seal shorter than 4 bytes is MalformedSeal; otherwise a
\* first 4 bytes other than the configured selector is InvalidSelector,
\* whether or not the rest matches the digest; otherwise a rest other than
\* the digest is InvalidProof.
C19_CheckOrder ==
    IsCheck
    => /\ Len(last.seal) < 4 => last.result = Err("MalformedSeal")
       /\ Len(last.seal) >= 4 /\ Prefix4(last.seal) # Configured
            => last.result = Err("InvalidSelector")
       /\ Len(last.seal) >= 4 /\ Prefix4(last.seal) = Configured
            /\ Body(last.seal) # CheckedDigest(last)
            => last.result = Err("InvalidProof")
       /\ last.result = Err("InvalidProof") => Prefix4(last.seal) = Configured

\* C19 witness: a seal with the wrong selector and a rest that does not match
\* the digest either was rejected with InvalidSelector.
C19_Witness ==
    /\ last.op = "verify_integrity"
    /\ Len(last.seal) >= 4
    /\ Prefix4(last.seal) # Configured
    /\ Body(last.seal) # last.claim_digest
    /\ last.result = Err("InvalidSelector")

----------------------------------------------------------------------------
(* Properties of the router in front of the two backends                   *)

\* A routed call on a seal of exactly 4 bytes whose selector is Active.
FourByteRouted ==
    /\ IsRouted
    /\ Len(last.seal) = 4
    /\ last.seen.tag = "Active"

\* C20 as stated: on a seal of exactly 4 bytes that is a registered selector
\* the router dispatches, the verifier behind it, Groth16 or mock, returns
\* MalformedSeal, and the routed call fails with MalformedSeal.
C20_AsStated ==
    FourByteRouted
    => /\ Len(last.calls) = 1
       /\ last.calls[1].to = last.seen.addr
       /\ last.result = Err("MalformedSeal")

\* C20 amended: on such a seal the router dispatches to the registered
\* verifier; the Groth16 verifier returns MalformedSeal, the development
\* verifier InvalidProof when the seal is its own selector and
\* InvalidSelector when it is not, and the routed call fails with that error.
C20_FourByteSeal ==
    FourByteRouted
    => LET st == vstore[last.seen.addr]
       IN  /\ Len(last.calls) = 1
           /\ last.calls[1].to = last.seen.addr
           /\ last.calls[1].seal = last.seal
           /\ st.kind = "RiscZeroGroth16Verifier"
                => last.result = Err("MalformedSeal")
           /\ st.kind = "RiscZeroMockVerifier" /\ last.seal = st.selector
                => last.result = Err("InvalidProof")
           /\ st.kind = "RiscZeroMockVerifier" /\ last.seal # st.selector
                => last.result = Err("InvalidSelector")

\* C20 witness: the 4 bytes of the Groth16 selector were routed to the
\* Groth16 verifier, which rejected them as malformed, while the development
\* verifier is registered under its own selector.
C20_Witness ==
    /\ FourByteRouted
    /\ last.seal = Groth16Selector
    /\ vstore[last.seen.addr].kind = "RiscZeroGroth16Verifier"
    /\ last.result = Err("MalformedSeal")
    /\ Entry(TestSelector) = Active("vB")

----------------------------------------------------------------------------
(* Properties of the seal codec                                            *)

IsSealParse == last.op = "Groth16Seal::try_from"
IsProofParse == last.op = "Groth16Proof::try_from"

\* C21 as stated: parsing a Groth16 seal rejects every byte string whose
\* length is not exactly 260 with MalformedSeal, with no selector and no point
\* decoded; parsing a bare proof body rejects every length but 192 the same
\* way.
C21_AsStated ==
    /\ IsSealParse /\ Len(last.value) # 260
         => /\ last.result = Err("MalformedSeal")
            /\ last.selector = NoSel
            /\ last.proof = NoProof
    /\ IsProofParse /\ Len(last.value) # 192
         => /\ last.result = Err("MalformedSeal")
            /\ last.proof = NoProof
    /\ IsProofParse /\ Len(last.value) = 192 => last.result = Ok

\* C21 amended: parsing a Groth16 seal rejects every byte string whose length
\* is not exactly 260 with MalformedSeal, with no selector and no point
\* decoded; parsing a bare proof body rejects every length but 256 the same
\* way, and accepts a body of 256 bytes.
C21_LengthRejected ==
    /\ IsSealParse /\ Len(last.value) # 260
         => /\ last.result = Err("MalformedSeal")
            /\ last.selector = NoSel
            /\ last.proof = NoProof
    /\ IsProofParse /\ Len(last.value) # 256
         => /\ last.result = Err("MalformedSeal")
            /\ last.proof = NoProof
    /\ IsProofParse /\ Len(last.value) = 256 => last.result = Ok

\* C21 witness: a proof body of 192 bytes was rejected as malformed.
C21_Witness ==
    /\ IsProofParse
    /\ Len(last.value) = 192
    /\ last.result = Err("MalformedSeal")
    /\ last.proof = NoProof

\* C22: parsing a seal of 260 bytes succeeds with the selector bytes 0..4 and
\* the points A = bytes 4..68, B = bytes 68..196 and C = bytes 196..260; the
\* fields put end to end are the seal again, and parsing what an encoder emits
\* for them gives them back.
C22_RoundTrip ==
    IsSealParse /\ Len(last.value) = 260
    => /\ last.result = Ok
       /\ last.selector = SubSeq(last.value, 1, 4)
       /\ last.proof.a = SubSeq(last.value, 5, 68)
       /\ last.proof.b = SubSeq(last.value, 69, 196)
       /\ last.proof.c = SubSeq(last.value, 197, 260)
       /\ Len(last.selector) + Len(last.proof.a) + Len(last.proof.b)
            + Len(last.proof.c) = 260
       /\ Groth16Seal_encode(last.selector, last.proof) = last.value
       /\ LET again == Groth16Seal_try_from(Groth16Seal_encode(last.selector, last.proof))
          IN  /\ again.result = Ok
              /\ again.selector = last.selector
              /\ again.proof = last.proof

\* C22 witness: the seal whose bytes are their own offsets was parsed, and
\* the second point starts with the byte at offset 68 and ends with the one at
\* offset 195.
C22_Witness ==
    /\ IsSealParse
    /\ last.result = Ok
    /\ last.value = [i \in 1..260 |-> (i - 1) % 256]
    /\ last.proof.b[1] = 68
    /\ last.proof.b[Len(last.proof.b)] = 195

\* The eight 32-byte coordinates of the three points of a seal of 260 bytes.
Coordinates(value) == {SubSeq(value, 5 + 32 * k, 36 + 32 * k) : k \in 0..7}

\* A coordinate that is not below the modulus of the BN254 base field, whose
\* first byte is 0x30: any coordinate with a greater first byte.
OutOfRange(coordinate) == coordinate[1] > 48

\* C23 as stated: a seal of 260 bytes holding an out-of-range coordinate makes
\* Groth16Seal::try_from return MalformedSeal, with no proof parsed.
C23_RejectedAtParse ==
    /\ IsSealParse
    /\ Len(last.value) = 260
    /\ \E coordinate \in Coordinates(last.value) : OutOfRange(coordinate)
    => /\ last.result = Err("MalformedSeal")
       /\ last.proof = NoProof

----------------------------------------------------------------------------
(* Properties of the receipt claim functions                               *)

\* C24: ReceiptClaim::new(image_id, journal_digest) returns the claim whose
\* pre-state is the image id, whose post-state is the constant a3 ac c2 71 ..
\* b8 e2 of 32 bytes, whose input is 32 zero bytes, whose exit code is Halted
\* with 8 zero user bytes, and whose output is the digest of the Output made
\* of the journal digest and 32 zero bytes.
C24_HaltedDefaults ==
    last.op = "ReceiptClaim::new"
    => /\ last.claim.pre_state_digest = last.image_id
       /\ last.claim.post_state_digest = POST_STATE_DIGEST_HALTED
       /\ Len(last.claim.post_state_digest) = 32
       /\ SubSeq(last.claim.post_state_digest, 1, 4) = <<163, 172, 194, 113>>
       /\ SubSeq(last.claim.post_state_digest, 31, 32) = <<184, 226>>
       /\ last.claim.input = [i \in 1..32 |-> 0]
       /\ last.claim.exit_code = [system |-> 0, user |-> [i \in 1..8 |-> 0]]
       /\ last.claim.output =
              Output_digest([journal_digest |-> last.journal_digest,
                             assumptions_digest |-> [i \in 1..32 |-> 0]])

\* C24 witness: a claim was built for an image id and a journal digest that
\* differ from each other and from zero.
C24_Witness ==
    /\ last.op = "ReceiptClaim::new"
    /\ last.image_id = Fill(17)
    /\ last.journal_digest = Fill(3)
    /\ last.claim.pre_state_digest = Fill(17)
    /\ last.claim.input # last.claim.pre_state_digest

\* C25: Output::digest hashes TAG_OUTPUT, the journal digest, the assumptions
\* digest and 02 00, in that order, 98 bytes in all; ReceiptClaim::digest
\* hashes TAG_CLAIM, input, pre-state, post-state, output, [system,0,0,0],
\* [user[3],0,0,0] and 04 00, in that order, 170 bytes in all when each
\* digest of the claim has its 32 bytes; the tags are the embedded constants
\* 77 ea fe b3 .. and cb 1f ef cd ...
C25_Preimages ==
    /\ last.op = "Output::digest"
         => /\ last.preimage = TAG_OUTPUT \o last.output.journal_digest
                                 \o last.output.assumptions_digest \o <<2, 0>>
            /\ SubSeq(last.preimage, 1, 4) = <<119, 234, 254, 179>>
            /\ Len(last.preimage) = 98
            /\ last.digest = Sha256(last.preimage)
    /\ last.op = "ReceiptClaim::digest"
         => /\ last.preimage =
                   TAG_CLAIM \o last.claim.input \o last.claim.pre_state_digest
                   \o last.claim.post_state_digest \o last.claim.output
                   \o <<last.claim.exit_code.system, 0, 0, 0>>
                   \o <<last.claim.exit_code.user[4], 0, 0, 0>>
                   \o <<4, 0>>
            /\ SubSeq(last.preimage, 1, 4) = <<203, 31, 239, 205>>
            /\ Len(last.claim.output) = 32 => Len(last.preimage) = 170
            /\ last.digest = Sha256(last.preimage)

\* C25 witness: a claim whose input, pre-state, post-state and output are
\* four different digests of 32 bytes was hashed, and so was an Output.
C25_Witness ==
    /\ last.op = "ReceiptClaim::digest"
    /\ last.claim.input = Fill(19)
    /\ last.claim.pre_state_digest = Fill(17)
    /\ last.claim.post_state_digest = Fill(18)
    /\ last.claim.output = Fill(20)
    /\ Len(last.preimage) = 170

\* The bits of a byte and of a u32 read from 4 big-endian bytes, first the
\* most significant; the u32 shifted left, the bits shifted out being lost
\* (mod 2^32); and its 4 big-endian bytes.
Bits8(b) == [k \in 1..8 |-> (b \div (2 ^ (8 - k))) % 2]
U32_from_be_bytes(bs) == Bits8(bs[1]) \o Bits8(bs[2]) \o Bits8(bs[3]) \o Bits8(bs[4])
U32_shl(bits, n) == [k \in 1..32 |-> IF k + n <= 32 THEN bits[k + n] ELSE 0]
U32_to_be_bytes(bits) ==
    [j \in 1..4 |->
        LET bit(k) == bits[8 * (j - 1) + k]
        IN  128 * bit(1) + 64 * bit(2) + 32 * bit(3) + 16 * bit(4)
            + 8 * bit(5) + 4 * bit(6) + 2 * bit(7) + bit(8)]

\* The 4 bytes written for the system exit code and for the user exit code.
SystemBytes(preimage) == SubSeq(preimage, Len(preimage) - 9, Len(preimage) - 6)
UserBytes(preimage) == SubSeq(preimage, Len(preimage) - 5, Len(preimage) - 2)

\* Claims that differ from a claim at most in the user bytes other than the
\* fourth.
SameButUser(claim) ==
    {c \in Claims :
        /\ [c EXCEPT !.exit_code.user = claim.exit_code.user] = claim
        /\ c.exit_code.user[4] = claim.exit_code.user[4]}

\* C26: the 4 bytes written for the system code v are those of
\* ((v as u32) << 24).to_be_bytes(), that is [v,0,0,0]; the 4 bytes written
\* for the user code are those of (the big-endian u32 of user[0..4] << 24,
\* mod 2^32).to_be_bytes(), that is [user[3],0,0,0]; and the claims that
\* differ only in other user bytes have the same preimage.
C26_ExitCodeEncoding ==
    last.op = "ReceiptClaim::digest" /\ last.claim \in Claims
    => LET system == last.claim.exit_code.system
           user == last.claim.exit_code.user
       IN  /\ system \in {0, 1, 2}
           /\ SystemBytes(last.preimage)
                = U32_to_be_bytes(U32_shl(U32_from_be_bytes(<<0, 0, 0, system>>), 24))
           /\ SystemBytes(last.preimage) = <<system, 0, 0, 0>>
           /\ UserBytes(last.preimage)
                = U32_to_be_bytes(U32_shl(U32_from_be_bytes(SubSeq(user, 1, 4)), 24))
           /\ UserBytes(last.preimage) = <<user[4], 0, 0, 0>>
           /\ \A c \in SameButUser(last.claim) :
                  ReceiptClaim_preimage(c) = last.preimage

\* C26 witness: a paused claim with user code 09 00 00 07 .. was hashed; the
\* bytes written are 01 00 00 00 and 07 00 00 00, and another claim with
\* other user bytes has the same preimage.
C26_Witness ==
    /\ last.op = "ReceiptClaim::digest"
    /\ last.claim \in Claims
    /\ last.claim.exit_code.system = 1
    /\ last.claim.exit_code.user = <<9, 0, 0, 7, 0, 0, 0, 0>>
    /\ SystemBytes(last.preimage) = <<1, 0, 0, 0>>
    /\ UserBytes(last.preimage) = <<7, 0, 0, 0>>
    /\ \E c \in SameButUser(last.claim) : c # last.claim

----------------------------------------------------------------------------
(* Properties of the game contract                                         *)

\* The invocation was signed by the player it names.
SignedByPlayer(inv) == inv.signer = inv.player

\* The invocation made a call to a verifier or to the router that returned Ok.
VerifiedProof(inv) ==
    \E k \in DOMAIN inv.calls :
        /\ inv.calls[k].fn \in {"verify", "verify_integrity"}
        /\ inv.calls[k].result = Ok

\* C27: whenever submit_score writes a session's score or an entry of the
\* leaderboard, the same invocation has before that verified the submitted
\* proof with success.
C27_VerifiedBeforeRecorded ==
    [][ /\ last'.op = "submit_score"
        /\ \/ game'.leaderboard # game.leaderboard
           \/ game'.sessions # game.sessions
        => VerifiedProof(last') ]_vars

\* C28: a submit_score signed by its player fails with SessionNotFound when
\* no session has the id and with NotAuthorized when the session's player is
\* another one; in both cases the sessions, the leaderboard and the rest of
\* the contract's storage stay as they were and the hub is not called.
C28_SubmitRejected ==
    [][ last'.op = "submit_score" /\ SignedByPlayer(last')
        => LET session == game.sessions[last'.session_id]
           IN  /\ session = NoSession
                    => /\ last'.result = Err("SessionNotFound")
                       /\ last'.calls = <<>>
                       /\ game' = game
               /\ session # NoSession /\ session.player # last'.player
                    => /\ last'.result = Err("NotAuthorized")
                       /\ last'.calls = <<>>
                       /\ game' = game ]_vars

\* C28 witness: a player submitted a score for the running session of the
\* other player and was refused.
C28_Witness ==
    /\ last.op = "submit_score"
    /\ SignedByPlayer(last)
    /\ last.result = Err("NotAuthorized")
    /\ last.calls = <<>>
    /\ game.sessions[last.session_id].active
    /\ game.sessions[last.session_id].player # last.player
    /\ game.sessions[last.session_id].score = 0
    /\ game.leaderboard = <<>>

\* C29: a start_game signed by its player fails with NotInitialized when no
\* game hub is stored and with SessionExists when a session has the id,
\* running or finished, in both cases with no call to the hub and the storage
\* as it was; otherwise it calls start_game on the stored hub and stores the
\* session {player, score 0, active} when that call has returned, and stores
\* nothing when it has not.
C29_StartGame ==
    [][ last'.op = "start_game" /\ SignedByPlayer(last')
        => LET id == last'.session_id
           IN  /\ game.game_hub = NoAddr
                    => /\ last'.result = Err("NotInitialized")
                       /\ last'.calls = <<>>
                       /\ game' = game
               /\ game.game_hub # NoAddr /\ game.sessions[id] # NoSession
                    => /\ last'.result = Err("SessionExists")
                       /\ last'.calls = <<>>
                       /\ game' = game
               /\ game.game_hub # NoAddr /\ game.sessions[id] = NoSession
                    => /\ Len(last'.calls) = 1
                       /\ last'.calls[1].to = game.game_hub
                       /\ last'.calls[1].fn = "start_game"
                       /\ last'.calls[1].args.session_id = id
                       /\ IF last'.calls[1].result = Ok
                          THEN /\ last'.result = Ok
                               /\ game' = [game EXCEPT !.sessions[id] =
                                              [session_id |-> id,
                                               player |-> last'.player,
                                               score |-> 0, active |-> TRUE]]
                          ELSE /\ last'.result.status = "Trap"
                               /\ game' = game ]_vars

\* C29 witness: a start_game on the id of a finished session was refused with
\* SessionExists, the session keeping its score.
C29_Witness ==
    /\ last.op = "start_game"
    /\ SignedByPlayer(last)
    /\ last.result = Err("SessionExists")
    /\ last.calls = <<>>
    /\ ~game.sessions[last.session_id].active
    /\ game.sessions[last.session_id].score = 9

----------------------------------------------------------------------------
(* Properties of the development verifier's selector                       *)

\* C30: whatever selectors the verifiers were constructed with, in every
\* state reached through selector, mock_prove, mock_prove_claim, verify and
\* verify_integrity each verifier's selector() returns the selector it was
\* constructed with, and so did the last invocation of selector().
C30_SelectorImmutable ==
    \A s \in [Verifiers -> MockSelectors] :
        (\A v \in Verifiers : vstore[v] = RiscZeroMockVerifier_new(s[v]))
        => [](/\ \A v \in Verifiers :
                    RiscZeroMockVerifier_selector(vstore[v])
                        = [result |-> Ok, sel |-> s[v]]
              /\ last.op = "selector"
                    => /\ last.result = Ok
                       /\ last.selector = s[last.to])

\* C30 witness: selector() was invoked on the verifier constructed with the
\* flipped selector and returned it, the other verifier holding the tests'
\* selector.
C30_Witness ==
    /\ last.op = "selector"
    /\ last.to = "vA"
    /\ last.result = Ok
    /\ last.selector = FlippedSelector
    /\ vstore["vB"].selector = TestSelector

----------------------------------------------------------------------------
(* Properties of the router on an advancing ledger.                        *)

ReadOps ==
    {"verifiers", "get_verifier_by_selector", "get_verifier_from_seal",
     "verify", "verify_integrity"}

\* The selector an invocation names, directly or as the prefix of its seal.
TtlKey(inv) == IF inv.sel # NoSel THEN inv.sel ELSE SubSeq(inv.seal, 1, 4)

Extended(remaining) ==
    extend_ttl(remaining, VERIFIER_TTL_THRESHOLD, VERIFIER_EXTEND_AMOUNT)

\* C31 as stated: every read path that finds an entry, Active or Tombstone,
\* extends its lease to 90 days when fewer than 89 days remain, so that at
\* least 89 days remain after the read, whatever the read returns; no other
\* lease is touched, add_verifier and remove_verifier extend nothing.
C31_AsStated ==
    [][\A k \in DOMAIN storage :
          /\ (last'.op \in ReadOps /\ TtlKey(last') = k) =>
                /\ ttl'.remaining[k] = Extended(ttl.remaining[k])
                /\ ttl'.remaining[k] >= VERIFIER_TTL_THRESHOLD
          /\ (last'.op \in ReadOps /\ TtlKey(last') # k) =>
                ttl'.remaining[k] = ttl.remaining[k]
          /\ last'.op \in {"add_verifier", "remove_verifier"} =>
                ttl'.remaining[k] = ttl.remaining[k]]_vars

\* C31 (amended): a read path that finds an entry and returns Ok extends the
\* entry's lease to 90 days (1,555,200 ledgers) when fewer than 89 days
\* (1,537,920 ledgers) remain, so that at least 89 days remain after it; a
\* read that returns an error leaves the lease as it was, since the host
\* discards what a failed invocation did; no other lease is touched, a read
\* of an unset selector extends nothing, and add_verifier and
\* remove_verifier extend nothing.
C31_RollingLease ==
    [][/\ \A k \in DOMAIN storage :
            /\ (last'.op \in ReadOps /\ TtlKey(last') = k
                    /\ last'.result.status = "Ok") =>
                  /\ ttl'.remaining[k] = Extended(ttl.remaining[k])
                  /\ ttl'.remaining[k] >= VERIFIER_TTL_THRESHOLD
            /\ (last'.op \in ReadOps /\ TtlKey(last') = k
                    /\ last'.result.status # "Ok") =>
                  ttl'.remaining[k] = ttl.remaining[k]
            /\ (last'.op \in ReadOps /\ TtlKey(last') # k) =>
                  ttl'.remaining[k] = ttl.remaining[k]
            /\ last'.op \in {"add_verifier", "remove_verifier"} =>
                  ttl'.remaining[k] = ttl.remaining[k]
       /\ (last'.op \in ReadOps /\ TtlKey(last') \notin DOMAIN storage) =>
              /\ DOMAIN ttl'.remaining = DOMAIN ttl.remaining
              /\ ttl'.remaining = ttl.remaining]_vars

\* A routed verify that the verifier accepted has just brought a lease to
\* 90 days; no entry is created with that lease and no advance leaves it.
C31_Witness ==
    /\ last.op = "verify"
    /\ last.result.status = "Ok"
    /\ TtlSelector \in DOMAIN ttl.remaining
    /\ ttl.remaining[TtlSelector] = VERIFIER_EXTEND_AMOUNT

C34_RegistryFrame ==
    [][/\ storage' # storage => last'.op \in {"add_verifier", "remove_verifier"}
       /\ last'.op \in {"add_verifier", "remove_verifier"} =>
              \A k \in (DOMAIN storage \cup DOMAIN storage') \ {last'.sel} :
                  Get(storage', k) = Get(storage, k)
       /\ last'.op \in ReadOps => storage' = storage /\ owner' = owner]_vars

\* The owner has removed one selector while another stays Active, and a
\* routed call on the registry has failed since.
C34_Witness ==
    /\ last.op \in {"verify", "verify_integrity"}
    /\ last.result.status # "Ok"
    /\ \E k \in DOMAIN storage : storage[k].tag = "Active"
    /\ \E k \in DOMAIN storage : storage[k].tag = "Tombstone"

----------------------------------------------------------------------------
(* Properties of the development verifier under replay                     *)

\* C35: verify and verify_integrity of the development verifier write
\* nothing: whatever selectors the verifiers were constructed with, in every
\* state reached through any invocations each verifier's storage is as
\* constructed, and every verify and verify_integrity returns what the
\* freshly constructed verifier returns for the same receipt, so a receipt
\* gets the same answer on every submission.
C35_NoReceiptState ==
    \A s \in [Verifiers -> MockSelectors] :
        (\A v \in Verifiers : vstore[v] = RiscZeroMockVerifier_new(s[v]))
        => [](/\ \A v \in Verifiers : vstore[v] = RiscZeroMockVerifier_new(s[v])
              /\ last.op = "verify_integrity" =>
                    last.result =
                        RiscZeroMockVerifier_verify_integrity(
                            RiscZeroMockVerifier_new(s[last.to]),
                            Receipt(last.seal, last.claim_digest)).result
              /\ last.op = "verify" =>
                    last.result =
                        RiscZeroMockVerifier_verify(
                            RiscZeroMockVerifier_new(s[last.to]),
                            last.seal, last.image_id, last.journal).result)

\* A receipt has just been accepted by verify_integrity; submitting it again
\* is enabled in this state and leads back to it.
C35_Witness ==
    /\ last.op = "verify_integrity"
    /\ last.result = Ok
    /\ last.to = "vB"
    /\ last.seal = TestSelector \o last.claim_digest
    /\ last.claim_digest \in GivenDigests

----------------------------------------------------------------------------
(* Properties of the game contract's sessions                              *)

\* C36: a session, once created, is never deleted and keeps its session_id
\* and its player, and once submit_score has set active to false no
\* invocation of init, start_game or submit_score sets it back to true.
C36_SessionMonotone ==
    [][\A id \in SessionIds :
          game.sessions[id] # NoSession =>
              /\ game'.sessions[id] # NoSession
              /\ game'.sessions[id].session_id = game.sessions[id].session_id
              /\ game'.sessions[id].player = game.sessions[id].player
              /\ ~game.sessions[id].active => ~game'.sessions[id].active]_vars

\* A finished session has just been refused a new start under its id.
C36_Witness ==
    /\ last.op = "start_game"
    /\ last.result = Err("SessionExists")
    /\ game.sessions[last.session_id] # NoSession
    /\ ~game.sessions[last.session_id].active

\* C37: once submit_score has finished a session (active = false), a further
\* submit_score for the same session_id neither overwrites the session's
\* score nor appends to the leaderboard.
C37_ScoredOnce ==
    [][\A id \in SessionIds :
          (/\ game.sessions[id] # NoSession
           /\ ~game.sessions[id].active
           /\ last'.op = "submit_score"
           /\ last'.session_id = id) =>
              /\ game'.sessions[id].score = game.sessions[id].score
              /\ game'.leaderboard = game.leaderboard]_vars

----------------------------------------------------------------------------
(* Properties of the guest's simulation                                    *)

\* The obstacles spawned in the tick just simulated are those still at
\* y = -50: every other obstacle has moved since it was spawned.
Spawned(g) == {i \in 1..Len(g.obstacles) : g.obstacles[i].y = -50}
Moved(g) == (1..Len(g.obstacles)) \ Spawned(g)
\* The lanes that were free when the tick came to spawn.
FreeLanes(g) ==
    {l \in 0..(LANES - 1) : \A i \in Moved(g) : g.obstacles[i].lane # l}

\* C33: obstacles are spawned only when at least 2 of the 3 lanes are free,
\* 1 or 2 of them, in distinct free lanes and at most (free lanes - 1); at
\* the end of every tick some lane holds no obstacle.
C33_LaneClear ==
    /\ Spawned(guest) # {} =>
          /\ Cardinality(FreeLanes(guest)) >= 2
          /\ Cardinality(Spawned(guest)) \in {1, 2}
          /\ Cardinality(Spawned(guest)) <= Cardinality(FreeLanes(guest)) - 1
          /\ \A i \in Spawned(guest) : guest.obstacles[i].lane \in FreeLanes(guest)
          /\ \A i, j \in Spawned(guest) :
                 i # j => guest.obstacles[i].lane # guest.obstacles[j].lane
    /\ \E l \in 0..(LANES - 1) :
          \A i \in 1..Len(guest.obstacles) : guest.obstacles[i].lane # l

\* One obstacle has been spawned while another one was on the road, in one
\* of the two lanes left free.
C33_Witness ==
    /\ Cardinality(Spawned(guest)) = 1
    /\ Cardinality(FreeLanes(guest)) = 2
    /\ last.op = "tick"

\* C38: the player starts in lane 1 and is in lane 0, 1 or 2 after every
\* tick: action 1 moves one lane left unless the lane is 0, action 2 one
\* lane right unless the lane is 2, every other action leaves the lane.
C38_LaneInRange ==
    /\ [](/\ guest.player_lane \in 0..2
          /\ guest.processed = 0 => guest.player_lane = 1)
    /\ [][last'.op = "tick" =>
            guest'.player_lane =
                CASE last'.action = 1 ->
                       IF guest.player_lane = 0 THEN 0 ELSE guest.player_lane - 1
                  [] last'.action = 2 ->
                       IF guest.player_lane = 2 THEN 2 ELSE guest.player_lane + 1
                  [] OTHER -> guest.player_lane]_vars

\* The player has been sent right three times from lane 1 and is in lane 2.
C38_Witness ==
    /\ guest.processed = 3
    /\ guest.player_lane = 2
    /\ last.action = 2
    /\ guest.speed = BASE_SPEED_SCALE

Unpassed(obstacles) == {i \in 1..Len(obstacles) : ~obstacles[i].passed}
NewGems(g) == {i \in 1..Len(g.gems) : g.gems[i].y = -50}

ResultConsistent(score, obstacles_dodged, gems_collected, speed) ==
    /\ score = 2 * obstacles_dodged + 10 * gems_collected
    /\ speed = 100 + 25 * (obstacles_dodged \div 15)

\* C39: after every tick and in the committed result, score is
\* 2 * obstacles_dodged + 10 * gems_collected and the speed is
\* 100 + 25 * floor(obstacles_dodged / 15); a tick counts as dodged exactly
\* the obstacles that it turns from not passed to passed, and collects at
\* most the gems that it takes off the road.
C39_ResultConsistent ==
    /\ [](/\ ResultConsistent(guest.score, guest.obstacles_dodged,
                              guest.gems_collected, guest.speed)
          /\ last.op = "commit" =>
                ResultConsistent(last.journal.score, last.journal.obstacles_dodged,
                                 last.journal.gems_collected,
                                 last.journal.speed_reached))
    /\ [][last'.op = "tick" =>
            /\ guest'.obstacles_dodged - guest.obstacles_dodged =
                   Cardinality(Unpassed(guest.obstacles))
                   + Cardinality(Spawned(guest'))
                   - Cardinality(Unpassed(guest'.obstacles))
            /\ guest'.gems_collected - guest.gems_collected <=
                   Len(guest.gems) + Cardinality(NewGems(guest')) - Len(guest'.gems)
            /\ guest'.gems_collected >= guest.gems_collected]_vars

\* The result committed after fifteen obstacles were dodged and a gem
\* collected: the speed has gone up.
C39_Witness ==
    /\ last.op = "commit"
    /\ last.journal.obstacles_dodged >= 15
    /\ last.journal.gems_collected > 0
    /\ last.journal.speed_reached = 125

\* An obstacle not yet passed, in the player's lane, overlaps the player
\* once moved by step.
Overlaps(obs, lane, step) ==
    /\ ~obs.passed
    /\ obs.lane = lane
    /\ obs.y + step + 20 > player_y
    /\ obs.y + step - 20 < player_y + player_height

\* C40: a tick ends in a collision exactly when an obstacle not yet passed
\* overlaps the player in the player's lane; in that tick no gem moves or is
\* collected, nothing is dropped or spawned and the generator is not drawn
\* from; no action is processed after it; the result's collision_occurred
\* tells whether it happened; each tick processes one action.
C40_StopsAtCollision ==
    [][/\ last'.op = "tick" =>
            /\ ~guest.collision
            /\ guest'.processed = guest.processed + 1
            /\ guest'.collision <=>
                   \E i \in 1..Len(guest.obstacles) :
                       Overlaps(guest.obstacles[i], guest'.player_lane,
                                effective_speed(guest.speed))
            /\ guest'.collision =>
                   /\ guest'.gems = guest.gems
                   /\ guest'.gems_collected = guest.gems_collected
                   /\ guest'.rng = guest.rng
                   /\ Len(guest'.obstacles) = Len(guest.obstacles)
       /\ last'.op = "commit" =>
            /\ last'.journal.collision_occurred = guest.collision
            /\ guest'.processed = guest.processed]_vars

\* The result of a game that ended in a collision while a gem was on the
\* road.
C40_Witness ==
    /\ last.op = "commit"
    /\ last.journal.collision_occurred
    /\ guest.gems # <<>>

====
